---- MODULE Spec2Model ----
(***************************************************************************)
(* A model of augsuggest.c: the flat list of (path, value) pairs of an     *)
(* augeas tree is split into segments, grouped by head, a predicate is     *)
(* chosen for every (group, position), and one "set" line is written per   *)
(* entry.                                                                  *)
(*                                                                         *)
(* C strings are sequences of one-character strings.  A "char *" into a    *)
(* string is a 1-based index; Len(s)+1 is the position of the terminating  *)
(* '\0'.  Pointers to tails are indexes into group.all_tails, pointers to  *)
(* groups are indexes into all_groups; 0 is the NULL pointer.              *)
(***************************************************************************)
EXTENDS Integers, Sequences, FiniteSets, TLC

\* ------------------------------------------------------------------ bounds
MaxRecords == 3
MaxFields == 2
MaxDeepRecords == 2
MaxSeqLabel == 3
MaxValueLen == 3
MaxSteps == 3

\* ------------------------------------------------------- C-level constants
\* The NULL char pointer: a one-element sequence whose element is no character.
NULL == <<"NULL">>
\* The terminating '\0' of a C string.
NUL == "NUL"
\* position = ULONG_MAX (-1): the segment has no position.
ULONG_MAX == -1
MAX_PRETTY_WIDTH == 30

\* chosen_tail_state_t
NOT_DONE == "NOT_DONE"
FIRST_TAIL == "FIRST_TAIL"
CHOSEN_TAIL_START == "CHOSEN_TAIL_START"
CHOSEN_TAIL_WIP == "CHOSEN_TAIL_WIP"
CHOSEN_TAIL_DONE == "CHOSEN_TAIL_DONE"
CHOSEN_TAIL_PLUS_FIRST_TAIL_START == "CHOSEN_TAIL_PLUS_FIRST_TAIL_START"
CHOSEN_TAIL_PLUS_FIRST_TAIL_WIP == "CHOSEN_TAIL_PLUS_FIRST_TAIL_WIP"
CHOSEN_TAIL_PLUS_FIRST_TAIL_DONE == "CHOSEN_TAIL_PLUS_FIRST_TAIL_DONE"
FIRST_TAIL_PLUS_POSITION == "FIRST_TAIL_PLUS_POSITION"
NO_CHILD_NODES == "NO_CHILD_NODES"

\* ------------------------------------------------------------ characters
DigitChars == {"0", "1", "2", "3", "4", "5", "6", "7", "8", "9"}

DigitVal(c) ==
    CASE c = "0" -> 0 [] c = "1" -> 1 [] c = "2" -> 2 [] c = "3" -> 3
      [] c = "4" -> 4 [] c = "5" -> 5 [] c = "6" -> 6 [] c = "7" -> 7
      [] c = "8" -> 8 [] c = "9" -> 9

DigitChar(d) ==
    CASE d = 0 -> "0" [] d = 1 -> "1" [] d = 2 -> "2" [] d = 3 -> "3"
      [] d = 4 -> "4" [] d = 5 -> "5" [] d = 6 -> "6" [] d = 7 -> "7"
      [] d = 8 -> "8" [] d = 9 -> "9"

\* *(s+i-1) of a C string: the '\0' at and after its end.
CharAt(s, i) == IF i >= 1 /\ i <= Len(s) THEN s[i] ELSE NUL

IsDigit(c) == c \in DigitChars

\* The rest of a C string from pointer i.
StrFrom(s, i) == SubSeq(s, i, Len(s))

RECURSIVE strtoul_acc(_, _, _)
strtoul_acc(s, i, acc) ==
    IF IsDigit(CharAt(s, i))
    THEN strtoul_acc(s, i + 1, acc * 10 + DigitVal(s[i]))
    ELSE [val |-> acc, endptr |-> i]

\* strtoul(s+i-1, &endptr, 10) on a string that starts with a digit.
strtoul(s, i) == strtoul_acc(s, i, 0)

RECURSIVE ultoa(_)
\* printf("%lu", n)
ultoa(n) == IF n < 10 THEN <<DigitChar(n)>> ELSE ultoa(n \div 10) \o <<DigitChar(n % 10)>>

MAX(a, b) == IF a > b THEN a ELSE b
MIN(a, b) == IF a < b THEN a ELSE b

\* ------------------------------------------------------------ str_next_pos
RECURSIVE str_next_pos_scan(_, _, _)
str_next_pos_scan(str, s, pos) ==
    IF s > Len(str)
    THEN [ret |-> s, head_end |-> s, pos |-> pos]
    ELSE IF str[s] = "[" /\ IsDigit(CharAt(str, s + 1))
    THEN LET n == strtoul(str, s + 1) IN
         IF CharAt(str, n.endptr) = "]"
         THEN [ret |-> n.endptr + 1, head_end |-> s, pos |-> n.val]
         ELSE str_next_pos_scan(str, s + 1, n.val)
    ELSE IF str[s] = "/" /\ IsDigit(CharAt(str, s + 1))
    THEN LET n == strtoul(str, s + 1) IN
         IF CharAt(str, n.endptr) \in {NUL, "/"}
         THEN [ret |-> n.endptr, head_end |-> s + 1, pos |-> n.val]
         ELSE str_next_pos_scan(str, s + 1, n.val)
    ELSE str_next_pos_scan(str, s + 1, pos)

\* str_next_pos() finding no marker at all: the end of the string.
str_next_pos_none(str, start) ==
    [ret |-> Len(str) + 1, head_end |-> Len(str) + 1, pos |-> ULONG_MAX]

\* The next [123], /123/ or /123\0 at or after start: the pointer returned,
\* *head_end and *pos.  *pos is reset only once, before the scan.
str_next_pos(str, start) == str_next_pos_scan(str, start, ULONG_MAX)

\* ------------------------------------------------------ str_simplified_tail
RECURSIVE SkipDigits(_, _)
SkipDigits(s, i) == IF IsDigit(CharAt(s, i)) THEN SkipDigits(s, i + 1) ELSE i

SeqStar(nsq) == IF nsq THEN <<"/", "*">> ELSE <<"/", "s", "e", "q", ":", ":", "*">>

RECURSIVE simplified_copy(_, _, _)
simplified_copy(tail, from, nsq) ==
    IF from > Len(tail) THEN <<>>
    ELSE IF tail[from] = "[" /\ IsDigit(CharAt(tail, from + 1))
                             /\ CharAt(tail, SkipDigits(tail, from + 1)) = "]"
    THEN simplified_copy(tail, SkipDigits(tail, from + 1) + 1, nsq)
    ELSE IF tail[from] = "/" /\ IsDigit(CharAt(tail, from + 1))
                             /\ CharAt(tail, SkipDigits(tail, from + 1)) \in {"/", NUL}
    THEN SeqStar(nsq) \o simplified_copy(tail, SkipDigits(tail, from + 1), nsq)
    ELSE <<tail[from]>> \o simplified_copy(tail, from + 1, nsq)

\* The tail with [123] removed and /123 replaced by /seq::* (or by /*).
str_simplified_tail(tail_orig, nsq) == simplified_copy(tail_orig, 1, nsq)

\* ---------------------------------------------------------------- value_cmp
RECURSIVE value_cmp_re(_, _, _)
value_cmp_re(v1, v2, i) ==
    IF CharAt(v1, i) = NUL /\ CharAt(v2, i) = NUL
    THEN [eq |-> TRUE, matched |-> i - 1]
    ELSE IF CharAt(v1, i) # CharAt(v2, i)
            /\ (CharAt(v1, i) = NUL \/ CharAt(v2, i) = NUL
                \/ (CharAt(v1, i) # "]" /\ CharAt(v2, i) # "]"))
    THEN [eq |-> FALSE, matched |-> i - 1]
    ELSE value_cmp_re(v1, v2, i + 1)

RECURSIVE value_cmp_plain(_, _, _)
value_cmp_plain(v1, v2, i) ==
    IF CharAt(v1, i) # CharAt(v2, i)
    THEN [eq |-> FALSE, matched |-> i - 1]
    ELSE IF CharAt(v1, i) = NUL
    THEN [eq |-> TRUE, matched |-> i - 1]
    ELSE value_cmp_plain(v1, v2, i + 1)

\* Whether two values match, and *matched, the characters in common.
value_cmp(v1, v2, re) ==
    IF v1 = NULL /\ v2 = NULL THEN [eq |-> TRUE, matched |-> 0]
    ELSE IF v1 = NULL \/ v2 = NULL THEN [eq |-> FALSE, matched |-> 0]
    ELSE IF re # 0 THEN value_cmp_re(v1, v2, 1)
    ELSE value_cmp_plain(v1, v2, 1)

\* ------------------------------------------------------------- quote_value
HasChar(s, c) == \E i \in 1..Len(s) : s[i] = c

\* quote_value() without its choice of the delimiter: always '.
QuoteChar_single(value) == "'"

QuoteChar(value) ==
    IF ~HasChar(value, "'") THEN "'"
    ELSE IF ~HasChar(value, "\"") THEN "\""
    ELSE "'"

RECURSIVE quote_copy(_, _, _)
quote_copy(value, s, quote) ==
    IF s > Len(value) THEN <<>>
    ELSE (IF value[s] = quote THEN <<"\\", quote>>
          ELSE IF value[s] = "\n" THEN <<"\\", "n">>
          ELSE IF value[s] = "\t" THEN <<"\\", "t">>
          ELSE IF value[s] = "\\" THEN <<"\\", "\\">>
          ELSE <<value[s]>>) \o quote_copy(value, s + 1, quote)

\* The value as a quoted literal; NULL for NULL.
quote_value(value) ==
    IF value = NULL THEN NULL
    ELSE LET quote == QuoteChar(value) IN
         <<quote>> \o quote_copy(value, 1, quote) \o <<quote>>

\* ------------------------------------------------------------------ groups
\* A reallocation that does not keep what the array held.
ArrayGrow_lost(arr, old_size, new_size, init) == [i \in 0..(new_size - 1) |-> init]

\* A C array of new_size elements: the old ones kept, the new ones set to init.
ArrayGrow(arr, old_size, new_size, init) ==
    [i \in 0..(new_size - 1) |-> IF i < old_size THEN arr[i] ELSE init]

\* The struct group find_or_create_group() allocates.
NewGroup(head) ==
    [head |-> head, all_tails |-> <<>>, position_array_size |-> 0,
     tails_at_position |-> <<>>, chosen_tail |-> <<>>, chosen_tail_state |-> <<>>,
     first_tail |-> <<>>, max_position |-> 0, subgroups |-> <<>>,
     subgroup_position |-> <<>>, pretty_width_ct |-> <<>>,
     re_width_ct |-> <<>>, re_width_ft |-> <<>>]

\* The index in all_groups of the group with this head, 0 when there is none.
GroupIndex(groups, head) ==
    IF \E i \in 1..Len(groups) : groups[i].head = head
    THEN CHOOSE i \in 1..Len(groups) : groups[i].head = head
    ELSE 0

find_or_create_group(groups, head) ==
    IF GroupIndex(groups, head) # 0
    THEN [groups |-> groups, ndx |-> GroupIndex(groups, head)]
    ELSE [groups |-> Append(groups, NewGroup(head)), ndx |-> Len(groups) + 1]

grow_position_arrays(group, new_max_position) ==
    IF new_max_position # ULONG_MAX /\ new_max_position >= group.position_array_size
    THEN LET old_size == group.position_array_size
             new_size == ((new_max_position + 1) \div 8) * 8 + 8
         IN  [group EXCEPT
                !.tails_at_position = ArrayGrow(@, old_size, new_size, <<>>),
                !.chosen_tail = ArrayGrow(@, old_size, new_size, 0),
                !.first_tail = ArrayGrow(@, old_size, new_size, 0),
                !.chosen_tail_state = ArrayGrow(@, old_size, new_size, NOT_DONE),
                !.pretty_width_ct = ArrayGrow(@, old_size, new_size, 0),
                !.re_width_ct = ArrayGrow(@, old_size, new_size, 0),
                !.re_width_ft = ArrayGrow(@, old_size, new_size, 0),
                !.all_tails = [t \in 1..Len(@) |->
                    [@[t] EXCEPT
                       !.tail_found_map = ArrayGrow(@, old_size, new_size, 0),
                       !.tail_value_found_map = ArrayGrow(@, old_size, new_size, 0)]],
                !.position_array_size = new_size]
    ELSE group

\* The first loop of find_or_create_tail() counting the tail only, never the
\* tail with its value.
CountTail_no_value(tail, simplified_tail, position, value, re) ==
    IF tail.simple_tail = simplified_tail
    THEN [tail EXCEPT !.tail_found_map[position] = @ + 1]
    ELSE tail

\* The first loop of find_or_create_tail(): the counters of every tail with the
\* same simple_tail, and of those among them whose value matches too.
CountTail(tail, simplified_tail, position, value, re) ==
    IF tail.simple_tail = simplified_tail
    THEN IF value_cmp(tail.value, value, re).eq
         THEN [tail EXCEPT !.tail_found_map[position] = @ + 1,
                           !.tail_value_found_map[position] = @ + 1,
                           !.tail_value_found = @ + 1]
         ELSE [tail EXCEPT !.tail_found_map[position] = @ + 1]
    ELSE tail

\* The last element of a set of indexes, 0 for the empty set.
LastIndex(S) == IF S = {} THEN 0 ELSE CHOOSE i \in S : \A j \in S : j <= i

find_or_create_tail(group, simplified_tail, position, value, value_qq, re) ==
    LET old == group.all_tails
        counted == [t \in 1..Len(old) |->
                       CountTail(old[t], simplified_tail, position, value, re)]
        found_tail == LastIndex({t \in 1..Len(old) : old[t].simple_tail = simplified_tail})
        found_tail_value ==
            LastIndex({t \in 1..Len(old) : /\ old[t].simple_tail = simplified_tail
                                           /\ value_cmp(old[t].value, value, re).eq})
        tail_found_this_pos ==
            IF found_tail = 0 THEN 1 ELSE counted[found_tail].tail_found_map[position]
        size == group.position_array_size
        copied == [i \in 0..(size - 1) |->
                      IF found_tail # 0 /\ i <= group.max_position
                      THEN counted[found_tail].tail_found_map[i] ELSE 0]
        tail == [simple_tail |-> simplified_tail, value |-> value,
                 value_qq |-> value_qq, value_re |-> NULL,
                 tail_found_map |-> [copied EXCEPT ![position] = tail_found_this_pos],
                 tail_value_found_map |->
                     [i \in 0..(size - 1) |-> IF i = position THEN 1 ELSE 0],
                 tail_value_found |-> 1]
    IN  IF found_tail_value = 0
        THEN [group |-> [group EXCEPT !.all_tails = Append(counted, tail)],
              tail |-> Len(old) + 1]
        ELSE [group |-> [group EXCEPT !.all_tails = counted], tail |-> found_tail_value]

append_tail_stub(group, tail, position) ==
    [group EXCEPT !.tails_at_position[position] = Append(@, tail)]

\* add_segment_to_group() on a segment with a position.  On a group whose arrays
\* are still unallocated a position of 0 makes append_tail_stub() write through
\* the NULL tails_at_position: the process ends there.
add_segment_to_group(groups, head, position, simplified_tail, value, value_qq, re) ==
    LET fg == find_or_create_group(groups, head)
        g0 == fg.groups[fg.ndx]
        g1 == IF position # ULONG_MAX /\ position > g0.max_position
              THEN grow_position_arrays([g0 EXCEPT !.max_position = position], position)
              ELSE g0
    IN  IF position >= g1.position_array_size
        THEN [groups |-> fg.groups, group |-> fg.ndx, crashed |-> TRUE]
        ELSE LET ft == find_or_create_tail(g1, simplified_tail, position, value, value_qq, re)
             IN  [groups |-> [fg.groups EXCEPT
                                ![fg.ndx] = append_tail_stub(ft.group, ft.tail, position)],
                  group |-> fg.ndx, crashed |-> FALSE]

\* ---------------------------------------------------------------- split_path
RECURSIVE split_path_loop(_, _, _, _, _, _, _)
split_path_loop(path, path_seg_start, value, value_qq, groups, nsq, re) ==
    IF path_seg_start > Len(path)
    THEN [segments |-> <<>>, groups |-> groups, crashed |-> FALSE]
    ELSE LET np == str_next_pos(path, path_seg_start)
             head == SubSeq(path, 1, np.head_end - 1)
             this == [head |-> head,
                      segment |-> SubSeq(path, path_seg_start, np.head_end - 1),
                      position |-> np.pos,
                      simplified_tail |-> str_simplified_tail(StrFrom(path, np.ret), nsq),
                      group |-> 0]
         IN  IF np.pos # ULONG_MAX
             THEN LET ag == add_segment_to_group(groups, head, np.pos,
                                this.simplified_tail, value, value_qq, re)
                      rest == split_path_loop(path, np.ret, value, value_qq,
                                              ag.groups, nsq, re)
                  IN  IF ag.crashed
                      THEN [segments |-> <<>>, groups |-> groups, crashed |-> TRUE]
                      ELSE [segments |-> <<[this EXCEPT !.group = ag.group]>> \o rest.segments,
                            groups |-> rest.groups, crashed |-> rest.crashed]
             ELSE LET rest == split_path_loop(path, np.ret, value, value_qq,
                                              groups, nsq, re)
                  IN  [segments |-> <<this>> \o rest.segments,
                       groups |-> rest.groups, crashed |-> rest.crashed]

\* The segments of a path, each with a position added to the group of its head.
split_path(path, value, value_qq, groups, nsq, re) ==
    split_path_loop(path, 1, value, value_qq, groups, nsq, re)

\* ------------------------------------------------- find_or_create_subgroup
\* The index in group.subgroups of the subgroup of first_tail, 0 for none.
SubgroupIndex(group, first_tail) ==
    IF \E i \in 1..Len(group.subgroups) : group.subgroups[i].first_tail = first_tail
    THEN CHOOSE i \in 1..Len(group.subgroups) : group.subgroups[i].first_tail = first_tail
    ELSE 0

\* Whether the tail is one of the tail stubs at the position.
TailAtPosition(group, tail, pos) ==
    \E i \in 1..Len(group.tails_at_position[pos]) : group.tails_at_position[pos][i] = tail

RECURSIVE MatchingPositions(_, _, _)
\* The positions pos_ndx..max_position that hold the tail, in ascending order.
MatchingPositions(group, first_tail, pos_ndx) ==
    IF pos_ndx > group.max_position THEN <<>>
    ELSE (IF TailAtPosition(group, first_tail, pos_ndx) THEN <<pos_ndx>> ELSE <<>>)
         \o MatchingPositions(group, first_tail, pos_ndx + 1)

\* The 1-based index of pos in a list of positions, 0 when it is not there.
IndexIn(list, pos) ==
    IF \E i \in 1..Len(list) : list[i] = pos
    THEN CHOOSE i \in 1..Len(list) : list[i] = pos
    ELSE 0

\* group.subgroup_position is one array for the whole group, allocated (not
\* initialised: 0 stands for never written) by the first subgroup created and
\* written by every one created after it.
find_or_create_subgroup(group, first_tail) ==
    IF SubgroupIndex(group, first_tail) # 0
    THEN [group |-> group, subgroup |-> SubgroupIndex(group, first_tail)]
    ELSE LET matching_positions == MatchingPositions(group, first_tail, 1)
             allocated == IF group.subgroup_position = <<>>
                          THEN [i \in 0..group.max_position |-> 0]
                          ELSE group.subgroup_position
         IN  [group |-> [group EXCEPT
                !.subgroups = Append(@, [first_tail |-> first_tail,
                                         matching_positions |-> matching_positions]),
                !.subgroup_position =
                    [i \in DOMAIN allocated |->
                        IF IndexIn(matching_positions, i) # 0
                        THEN IndexIn(matching_positions, i) ELSE allocated[i]]],
              subgroup |-> Len(group.subgroups) + 1]

\* --------------------------------------------------------------- str_ischild
RECURSIVE str_ischild_from(_, _, _)
str_ischild_from(parent, child, i) ==
    IF CharAt(parent, i) # NUL
    THEN IF CharAt(parent, i) # CharAt(child, i) THEN FALSE
         ELSE str_ischild_from(parent, child, i + 1)
    ELSE CharAt(child, i) = "/"

\* parent == /path and child == /path/tail
str_ischild(parent, child) == str_ischild_from(parent, child, 1)

\* ------------------------------------------------------------ find_first_tail
RECURSIVE find_first_tail_from_value(_, _, _)
\* The loop stopping at a value only.
find_first_tail_from_value(stubs, tails, i) ==
    IF i >= Len(stubs) THEN i
    ELSE IF tails[stubs[i]].value # NULL /\ tails[stubs[i]].value # <<>> THEN i
    ELSE find_first_tail_from_value(stubs, tails, i + 1)

RECURSIVE find_first_tail_from(_, _, _)
find_first_tail_from(stubs, tails, i) ==
    IF i >= Len(stubs) THEN i
    ELSE IF tails[stubs[i]].value # NULL /\ tails[stubs[i]].value # <<>> THEN i
    ELSE IF ~str_ischild(tails[stubs[i]].simple_tail, tails[stubs[i + 1]].simple_tail) THEN i
    ELSE find_first_tail_from(stubs, tails, i + 1)

\* find_first_tail() without its loop: the head of the list.
find_first_tail_head(stubs, tails) == IF stubs = <<>> THEN 0 ELSE 1

\* The index in the list of tail stubs of the first significant one, 0 (NULL)
\* for an empty list.
find_first_tail(stubs, tails) ==
    IF stubs = <<>> THEN 0 ELSE find_first_tail_from(stubs, tails, 1)

\* ---------------------------------------------------------------- choose_tail
\* No stub from first_tail up to (not including) stub i has the simple_tail of stub i.
FirstAppearance(stubs, tails, first_tail, i) ==
    \A j \in first_tail..(i - 1) :
        tails[stubs[j]].simple_tail # tails[stubs[i]].simple_tail

\* The second preference with its loop over the positions started at 0, a
\* position no tail is found at.
SecondPreference_from0(group, stubs, first_tail, i) ==
    LET tail == group.all_tails[stubs[i]] IN
    /\ tail.tail_value_found = 1
    /\ \A ndx \in 0..group.max_position : tail.tail_found_map[ndx] # 0
    /\ FirstAppearance(stubs, group.all_tails, first_tail, i)

\* Second preference: the tail+value is unique in the group and the tail is
\* found at every position of the group.
SecondPreference(group, stubs, first_tail, i) ==
    LET tail == group.all_tails[stubs[i]] IN
    /\ tail.tail_value_found = 1
    /\ \A ndx \in 1..group.max_position : tail.tail_found_map[ndx] # 0
    /\ FirstAppearance(stubs, group.all_tails, first_tail, i)

\* The third preference without its test of tail_value_found_map: the tail
\* only has to exist at every other position of the subgroup.
ThirdPreference_no_value(group, stubs, first_tail, i, matching_positions, position) ==
    LET tail == group.all_tails[stubs[i]] IN
    /\ \A n \in 1..Len(matching_positions) :
          LET pos == matching_positions[n] IN
          pos = position \/ tail.tail_found_map[pos] # 0
    /\ FirstAppearance(stubs, group.all_tails, first_tail, i)

\* Third preference: the tail+value is found at no other position of the
\* subgroup and the tail is found at every other position of the subgroup.
ThirdPreference(group, stubs, first_tail, i, matching_positions, position) ==
    LET tail == group.all_tails[stubs[i]] IN
    /\ \A n \in 1..Len(matching_positions) :
          LET pos == matching_positions[n] IN
          pos = position \/ (tail.tail_value_found_map[pos] = 0 /\ tail.tail_found_map[pos] # 0)
    /\ FirstAppearance(stubs, group.all_tails, first_tail, i)

\* The first element of a nonempty set of stub indexes.
FirstIndex(S) == CHOOSE i \in S : \A j \in S : i <= j

\* choose_tail(): the group with first_tail[position], chosen_tail_state[position]
\* and its subgroups set, and the tail returned (0 for NULL).
choose_tail(group, position) ==
    LET stubs == group.tails_at_position[position]
        tails == group.all_tails
        first_tail == find_first_tail(stubs, tails)
    IN  IF stubs = <<>>
        THEN [group |-> [group EXCEPT !.chosen_tail_state[position] = NO_CHILD_NODES],
              tail |-> 0]
        ELSE LET g1 == [group EXCEPT !.first_tail[position] = stubs[first_tail]]
                 second == {i \in first_tail..Len(stubs) :
                               SecondPreference(g1, stubs, first_tail, i)}
                 sg == find_or_create_subgroup(g1, stubs[first_tail])
                 third == {i \in (first_tail + 1)..Len(stubs) :
                              ThirdPreference(sg.group, stubs, first_tail, i,
                                  sg.group.subgroups[sg.subgroup].matching_positions,
                                  position)}
             IN  IF tails[stubs[first_tail]].tail_value_found = 1
                 THEN [group |-> [g1 EXCEPT !.chosen_tail_state[position] = FIRST_TAIL],
                       tail |-> stubs[first_tail]]
                 ELSE IF second # {}
                 THEN [group |-> [g1 EXCEPT !.chosen_tail_state[position] = CHOSEN_TAIL_START],
                       tail |-> stubs[FirstIndex(second)]]
                 ELSE IF third # {}
                 THEN [group |-> [sg.group EXCEPT !.chosen_tail_state[position] =
                                      CHOSEN_TAIL_PLUS_FIRST_TAIL_START],
                       tail |-> stubs[FirstIndex(third)]]
                 ELSE [group |-> [sg.group EXCEPT !.chosen_tail_state[position] =
                                      FIRST_TAIL_PLUS_POSITION],
                       tail |-> stubs[first_tail]]

RECURSIVE choose_tails_from(_, _)
\* The loop of choose_all_tails() over the positions of one group.
choose_tails_from(group, position) ==
    IF position > group.max_position THEN group
    ELSE LET ct == choose_tail(group, position)
         IN  choose_tails_from([ct.group EXCEPT !.chosen_tail[position] = ct.tail],
                               position + 1)

\* --------------------------------------------------------------- regexp_value
RegexpSpecial == {"*", "?", ".", "(", ")", "^", "$", "|"}

RECURSIVE regexp_copy(_, _, _, _)
\* The loop of regexp_value() from character s (1-based; s - value is s - 1).
regexp_copy(value, s, quote, max_len) ==
    IF s > Len(value) THEN <<>>
    ELSE IF value[s] = quote THEN <<"\\", quote>> \o regexp_copy(value, s + 1, quote, max_len)
    ELSE IF value[s] = "\n" THEN <<"\\", "n">> \o regexp_copy(value, s + 1, quote, max_len)
    ELSE IF value[s] = "\t" THEN <<"\\", "t">> \o regexp_copy(value, s + 1, quote, max_len)
    ELSE IF value[s] = "\\" \/ value[s] = "]"
    THEN <<".">> \o regexp_copy(value, s + 1, quote, max_len)
    ELSE LET escaped == IF value[s] = "[" THEN <<"\\", "[">>
                        ELSE IF value[s] \in RegexpSpecial THEN <<"\\", "\\", value[s]>>
                        ELSE <<value[s]>>
         IN  IF (s - 1) >= max_len /\ CharAt(value, s + 1) # NUL
                /\ CharAt(value, s + 2) # NUL /\ CharAt(value, s + 3) # NUL
             THEN escaped \o <<".", "*">>
             ELSE escaped \o regexp_copy(value, s + 1, quote, max_len)

\* regexp_value() cutting a character earlier.
regexp_value_early(value, max_len) ==
    IF value = NULL THEN NULL
    ELSE LET quote == QuoteChar(value) IN
         <<quote>> \o regexp_copy(value, 1, quote, max_len - 1) \o <<quote>>

\* The value as a quoted regular expression; NULL for NULL.
regexp_value(value, max_len) ==
    IF value = NULL THEN NULL
    ELSE LET quote == QuoteChar(value) IN
         <<quote>> \o regexp_copy(value, 1, quote, max_len) \o <<quote>>

\* ------------------------------------------------------------ choose_re_width
\* choose_re_width() finding no other tail to compare with.
MaxReWidth_none(group, of, re) == 0

\* The longest match of the value of tail `of` with the value of another tail
\* of the group that has the same simple_tail.
MaxReWidth(group, of, re) ==
    LET tails == group.all_tails
        widths == {value_cmp(tails[t].value, tails[of].value, re).matched :
                      t \in {u \in 1..Len(tails) :
                                u # of /\ tails[u].simple_tail = tails[of].simple_tail}}
    IN  IF widths = {} THEN 0 ELSE CHOOSE w \in widths : \A v \in widths : v <= w

\* strlen() of a C string, 0 for NULL (the callers test for it).
StrLen(s) == IF s = NULL THEN 0 ELSE Len(s)

RECURSIVE choose_re_width_from(_, _, _)
\* The loop of choose_re_width() from a position on; every position has a
\* chosen tail (the caller tests it: a NULL one ends the process).
choose_re_width_from(group, position, re) ==
    IF position > group.max_position THEN group
    ELSE LET chosen_tail == group.chosen_tail[position]
             first_tail == group.first_tail[position]
             third == group.chosen_tail_state[position] = CHOSEN_TAIL_PLUS_FIRST_TAIL_START
             max_re_width_ct == MAX(MaxReWidth(group, chosen_tail, re), re)
             max_re_width_ft ==
                 MAX(IF third /\ chosen_tail # first_tail
                     THEN MaxReWidth(group, first_tail, re) ELSE 0, re)
             g1 == [group EXCEPT
                       !.re_width_ct[position] = max_re_width_ct,
                       !.re_width_ft[position] = max_re_width_ft,
                       !.all_tails[chosen_tail].value_re =
                           regexp_value(group.all_tails[chosen_tail].value, max_re_width_ct)]
             g2 == IF third /\ chosen_tail # first_tail
                   THEN [g1 EXCEPT !.all_tails[first_tail].value_re =
                            regexp_value(group.all_tails[first_tail].value, max_re_width_ft)]
                   ELSE g1
         IN  choose_re_width_from(g2, position + 1, re)

choose_re_width(group, re) == choose_re_width_from(group, 1, re)

\* -------------------------------------------------------- choose_pretty_width
\* The first loop of choose_pretty_width(): the length of the value printed.
PrettyValueLen(group, position, re) ==
    LET pretty_tail ==
            IF group.chosen_tail_state[position] = CHOSEN_TAIL_PLUS_FIRST_TAIL_START
            THEN group.first_tail[position] ELSE group.chosen_tail[position]
    IN  IF re # 0 THEN StrLen(group.all_tails[pretty_tail].value_re)
        ELSE StrLen(group.all_tails[pretty_tail].value_qq)

RECURSIVE pretty_search_uncapped(_, _, _, _, _)
\* The inner loop taking every length into the maximum.
pretty_search_uncapped(group, widths, position, pos_search, max_width) ==
    IF pos_search > group.max_position THEN [widths |-> widths, max_width |-> max_width]
    ELSE IF group.all_tails[group.chosen_tail[pos_search]].simple_tail
            = group.all_tails[group.chosen_tail[position]].simple_tail
    THEN LET m == MAX(max_width, widths[pos_search])
         IN  pretty_search_uncapped(group, [widths EXCEPT ![pos_search] = m],
                                    position, pos_search + 1, m)
    ELSE pretty_search_uncapped(group, widths, position, pos_search + 1, max_width)

RECURSIVE pretty_search(_, _, _, _, _)
\* The inner loop of the second loop: [widths, max_width] after pos_search..max.
pretty_search(group, widths, position, pos_search, max_width) ==
    IF pos_search > group.max_position THEN [widths |-> widths, max_width |-> max_width]
    ELSE IF group.all_tails[group.chosen_tail[pos_search]].simple_tail
            = group.all_tails[group.chosen_tail[position]].simple_tail
    THEN LET value_len == widths[pos_search]
             m == IF value_len <= MAX_PRETTY_WIDTH THEN MAX(max_width, value_len)
                  ELSE max_width
         IN  pretty_search(group, [widths EXCEPT ![pos_search] = m],
                           position, pos_search + 1, m)
    ELSE pretty_search(group, widths, position, pos_search + 1, max_width)

RECURSIVE pretty_widths_from(_, _, _)
pretty_widths_from(group, widths, position) ==
    IF position > group.max_position THEN widths
    ELSE LET r == pretty_search(group, widths, position, position, 0)
         IN  pretty_widths_from(group,
                 [r.widths EXCEPT ![position] = MIN(r.max_width, MAX_PRETTY_WIDTH)],
                 position + 1)

choose_pretty_width(group, re) ==
    LET lens == [i \in DOMAIN group.pretty_width_ct |->
                    IF i >= 1 /\ i <= group.max_position
                    THEN PrettyValueLen(group, i, re) ELSE group.pretty_width_ct[i]]
    IN  [group EXCEPT !.pretty_width_ct = pretty_widths_from(group, lens, 1)]

\* ------------------------------------------------------------ choose_all_tails
\* Some position 1..max_position of the group has no chosen tail (no entries).
HasGap(group) == \E p \in 1..group.max_position : group.chosen_tail[p] = 0

\* One iteration of the loop of choose_all_tails().  choose_re_width() and
\* choose_pretty_width() read through chosen_tail[position] unchecked: with a
\* NULL one the process ends there.
choose_group(group, re, prty) ==
    LET g1 == choose_tails_from(group, 1)
        crashed == (re # 0 \/ prty) /\ HasGap(g1)
        g2 == IF re # 0 THEN choose_re_width(g1, re) ELSE g1
        g3 == IF prty THEN choose_pretty_width(g2, re) ELSE g2
    IN  IF crashed THEN [group |-> g1, crashed |-> TRUE]
        ELSE [group |-> g3, crashed |-> FALSE]

\* ------------------------------------------------------------ output_segment
\* The literal pieces of the printf formats.
TxtSet == <<"s", "e", "t", " ">>
TxtSeq == <<"s", "e", "q", ":", ":", "*">>
TxtRegexp == <<"=", "~", "r", "e", "g", "e", "x", "p", "(">>
TxtOrCount == <<" ", "o", "r", " ", "c", "o", "u", "n", "t", "(">>
TxtIsZero == <<")", "=", "0">>
TxtAnd == <<" ", "a", "n", "d", " ">>
TxtAndParen == <<" ", "a", "n", "d", " ", "(", " ">>
TxtStar == <<"*">>
\* What printf("%s") writes for a NULL string (glibc).
TxtNull == <<"(", "n", "u", "l", "l", ")">>

\* simple_tail_expr() without its case for the empty tail.
simple_tail_expr_skip(simple_tail) == StrFrom(simple_tail, 2)

simple_tail_expr(simple_tail) ==
    IF CharAt(simple_tail, 1) = "/" THEN StrFrom(simple_tail, 2)
    ELSE IF simple_tail = <<>> THEN <<".">>
    ELSE simple_tail

RECURSIVE Spaces(_)
Spaces(n) == IF n <= 0 THEN <<>> ELSE <<" ">> \o Spaces(n - 1)

\* printf("%s", str)
PrintS(str) == IF str = NULL THEN TxtNull ELSE str

\* printf("%*s", -width, str): left-justified in a field of width characters.
PrintPadded(str, width) == PrintS(str) \o Spaces(width - Len(PrintS(str)))

\* tail=value, or tail=~regexp(value), the value padded to the width.
PrintEquals(tail, width, re) ==
    IF re # 0
    THEN simple_tail_expr(tail.simple_tail) \o TxtRegexp
         \o PrintPadded(tail.value_re, width) \o <<")">>
    ELSE simple_tail_expr(tail.simple_tail) \o <<"=">> \o PrintPadded(tail.value_qq, width)

\* count(tail)=0 after " or "
PrintOrCount(tail) ==
    TxtOrCount \o simple_tail_expr(tail.simple_tail) \o TxtIsZero

\* The first operand of the compound predicate of the third preference.
PrintFirst(first, width, re) ==
    IF first.value = NULL THEN simple_tail_expr(first.simple_tail)
    ELSE PrintEquals(first, width, re)

\* The segment text, followed by seq::* or * after a trailing '/'.
PrintSegment(segment, nsq) ==
    IF segment[Len(segment)] = "/"
    THEN segment \o (IF nsq THEN TxtStar ELSE TxtSeq)
    ELSE segment

\* The text output_segment() writes after the segment for the state it finds.
PredicateText(group, position, chosen_tail_state, segment, re) ==
    LET chosen == group.all_tails[group.chosen_tail[position]]
        stubs == group.tails_at_position[position]
        first == group.all_tails[stubs[find_first_tail(stubs, group.all_tails)]]
        width == group.pretty_width_ct[position]
    IN  CASE chosen_tail_state \in {CHOSEN_TAIL_START, FIRST_TAIL, CHOSEN_TAIL_DONE,
                                    FIRST_TAIL_PLUS_POSITION} ->
               (IF chosen.value = NULL
                THEN <<"[">> \o simple_tail_expr(chosen.simple_tail) \o <<"]">>
                ELSE <<"[">> \o PrintEquals(chosen, width, re) \o <<"]">>)
               \o (IF chosen_tail_state = FIRST_TAIL_PLUS_POSITION
                   THEN <<"[">> \o ultoa(group.subgroup_position[position]) \o <<"]">>
                   ELSE <<>>)
          [] chosen_tail_state = CHOSEN_TAIL_WIP ->
               (IF chosen.value = NULL
                THEN <<"[">> \o simple_tail_expr(chosen.simple_tail)
                ELSE <<"[">> \o PrintEquals(chosen, width, re))
               \o PrintOrCount(chosen) \o <<"]">>
          [] chosen_tail_state \in {CHOSEN_TAIL_PLUS_FIRST_TAIL_START,
                                    CHOSEN_TAIL_PLUS_FIRST_TAIL_DONE} ->
               <<"[">> \o PrintFirst(first, width, re) \o TxtAnd
               \o PrintEquals(chosen, 0, re) \o <<"]">>
          [] chosen_tail_state = CHOSEN_TAIL_PLUS_FIRST_TAIL_WIP ->
               <<"[">> \o PrintFirst(first, width, re) \o TxtAndParen
               \o PrintEquals(chosen, 0, re) \o PrintOrCount(chosen)
               \o (IF first.value = NULL THEN <<" ", ")", "]">> ELSE <<" ", ")", " ", "]">>)
          [] chosen_tail_state = NO_CHILD_NODES ->
               IF segment[Len(segment)] # "/" THEN <<"[", "*", "]">> ELSE <<>>
          [] OTHER ->
               <<"[", " ">> \o simple_tail_expr(chosen.simple_tail) \o <<"=">>
               \o PrintS(chosen.value_qq) \o <<" ", "]">>

\* The WIP cases without their comparison with the chosen tail.
NextState_unmatched(chosen_tail_state, matched) ==
    CASE chosen_tail_state = CHOSEN_TAIL_START -> CHOSEN_TAIL_WIP
      [] chosen_tail_state = CHOSEN_TAIL_WIP -> CHOSEN_TAIL_DONE
      [] chosen_tail_state = CHOSEN_TAIL_PLUS_FIRST_TAIL_START -> CHOSEN_TAIL_PLUS_FIRST_TAIL_WIP
      [] chosen_tail_state = CHOSEN_TAIL_PLUS_FIRST_TAIL_WIP ->
             CHOSEN_TAIL_PLUS_FIRST_TAIL_DONE
      [] OTHER -> chosen_tail_state

\* The DONE cases starting over with the next line.
NextState_again(chosen_tail_state, matched) ==
    CASE chosen_tail_state = CHOSEN_TAIL_START -> CHOSEN_TAIL_WIP
      [] chosen_tail_state = CHOSEN_TAIL_WIP /\ matched -> CHOSEN_TAIL_DONE
      [] chosen_tail_state = CHOSEN_TAIL_DONE -> CHOSEN_TAIL_WIP
      [] chosen_tail_state = CHOSEN_TAIL_PLUS_FIRST_TAIL_START -> CHOSEN_TAIL_PLUS_FIRST_TAIL_WIP
      [] chosen_tail_state = CHOSEN_TAIL_PLUS_FIRST_TAIL_WIP /\ matched ->
             CHOSEN_TAIL_PLUS_FIRST_TAIL_DONE
      [] chosen_tail_state = CHOSEN_TAIL_PLUS_FIRST_TAIL_DONE ->
             CHOSEN_TAIL_PLUS_FIRST_TAIL_WIP
      [] OTHER -> chosen_tail_state

\* The state output_segment() leaves at the position; matched is the result of
\* the comparison of the entry with the chosen tail.
NextState(chosen_tail_state, matched) ==
    CASE chosen_tail_state = CHOSEN_TAIL_START -> CHOSEN_TAIL_WIP
      [] chosen_tail_state = CHOSEN_TAIL_WIP /\ matched -> CHOSEN_TAIL_DONE
      [] chosen_tail_state = CHOSEN_TAIL_PLUS_FIRST_TAIL_START -> CHOSEN_TAIL_PLUS_FIRST_TAIL_WIP
      [] chosen_tail_state = CHOSEN_TAIL_PLUS_FIRST_TAIL_WIP /\ matched ->
             CHOSEN_TAIL_PLUS_FIRST_TAIL_DONE
      [] OTHER -> chosen_tail_state

WipStates == {CHOSEN_TAIL_WIP, CHOSEN_TAIL_PLUS_FIRST_TAIL_WIP}

\* The WIP cases call strcmp(chosen_tail->value_qq, value_qq) once the simple
\* tails are equal: with a NULL value_qq that call is undefined.
StrcmpOnNull(group, position, ps, value_qq) ==
    /\ group.chosen_tail_state[position] \in WipStates
    /\ group.all_tails[group.chosen_tail[position]].simple_tail = ps.simplified_tail
    /\ (group.all_tails[group.chosen_tail[position]].value_qq = NULL \/ value_qq = NULL)

\* The compound predicates print the value of the chosen tail with %s, also
\* when it is NULL.
PrintsNull(group, position, re) ==
    /\ group.chosen_tail_state[position] \in
          {CHOSEN_TAIL_PLUS_FIRST_TAIL_START, CHOSEN_TAIL_PLUS_FIRST_TAIL_WIP,
           CHOSEN_TAIL_PLUS_FIRST_TAIL_DONE}
    /\ group.all_tails[group.chosen_tail[position]].value = NULL

\* The switch reads through chosen_tail in every case but NO_CHILD_NODES.
ReadsNullTail(group, position) ==
    /\ group.chosen_tail[position] = 0
    /\ group.chosen_tail_state[position] # NO_CHILD_NODES

\* Whether the entry is the one of the chosen tail (both strcmp() give 0); a
\* strcmp() on NULL that returns compares the same pointer with itself.
MatchesChosen(group, position, ps, value_qq) ==
    /\ group.all_tails[group.chosen_tail[position]].simple_tail = ps.simplified_tail
    /\ group.all_tails[group.chosen_tail[position]].value_qq = value_qq

\* What one call of output_segment() went through: the segment, its group and
\* position, the state it found there, the tails it printed from and the
\* predicate text it wrote.
Through(ps, groups, predicate) ==
    IF ps.group = 0
    THEN [segment |-> ps.segment, group |-> 0, position |-> ps.position,
          state |-> NOT_DONE, chosen |-> 0, first |-> 0, ordinal |-> 0,
          predicate |-> predicate]
    ELSE LET group == groups[ps.group]
             stubs == group.tails_at_position[ps.position]
         IN  [segment |-> ps.segment, group |-> ps.group, position |-> ps.position,
              state |-> group.chosen_tail_state[ps.position],
              chosen |-> group.chosen_tail[ps.position],
              first |-> stubs[find_first_tail(stubs, group.all_tails)],
              ordinal |-> IF group.chosen_tail_state[ps.position] = FIRST_TAIL_PLUS_POSITION
                          THEN group.subgroup_position[ps.position] ELSE 0,
              predicate |-> predicate]

\* output_segment(): the text written, the groups with the state of the position
\* advanced, and whether the call ran into undefined behaviour.
output_segment(ps, value_qq, groups, nsq, re) ==
    IF ps.group = 0
    THEN [text |-> PrintSegment(ps.segment, nsq), groups |-> groups,
          undefined |-> FALSE, fatal |-> FALSE, via |-> <<Through(ps, groups, <<>>)>>]
    ELSE LET group == groups[ps.group]
             position == ps.position
             chosen_tail_state == group.chosen_tail_state[position]
         IN  IF ReadsNullTail(group, position)
             THEN [text |-> PrintSegment(ps.segment, nsq), groups |-> groups,
                   undefined |-> TRUE, fatal |-> TRUE, via |-> <<>>]
             ELSE LET predicate == PredicateText(group, position, chosen_tail_state,
                                                ps.segment, re)
                      after == NextState(chosen_tail_state,
                                         chosen_tail_state \in WipStates
                                         /\ MatchesChosen(group, position, ps, value_qq))
                  IN  [text |-> PrintSegment(ps.segment, nsq) \o predicate,
                       groups |-> [groups EXCEPT
                                     ![ps.group].chosen_tail_state[position] = after],
                       undefined |-> StrcmpOnNull(group, position, ps, value_qq)
                                     \/ PrintsNull(group, position, re),
                       fatal |-> FALSE,
                       via |-> <<Through(ps, groups, predicate)>>]

RECURSIVE output_segments(_, _, _, _, _, _)
\* The loop of output_path() over the segments of an entry.
output_segments(segments, i, value_qq, groups, nsq, re) ==
    IF i > Len(segments)
    THEN [text |-> <<>>, groups |-> groups, undefined |-> FALSE, fatal |-> FALSE,
          via |-> <<>>]
    ELSE LET one == output_segment(segments[i], value_qq, groups, nsq, re)
             rest == output_segments(segments, i + 1, value_qq, one.groups, nsq, re)
         IN  IF one.fatal THEN one
             ELSE [text |-> one.text \o rest.text, groups |-> rest.groups,
                   undefined |-> one.undefined \/ rest.undefined,
                   fatal |-> rest.fatal, via |-> one.via \o rest.via]

\* output_path() that drops first_tail at the position of the first segment.
output_path_forgets(path_value_seg, groups, nsq, re) ==
    LET segs == output_segments(path_value_seg.segments, 1, path_value_seg.value_qq,
                                groups, nsq, re)
        ps == path_value_seg.segments[1]
    IN  [segs EXCEPT !.text = TxtSet \o segs.text
                        \o (IF path_value_seg.value_qq # NULL
                            THEN <<" ">> \o path_value_seg.value_qq ELSE <<>>),
                     !.groups = IF ps.group = 0 THEN segs.groups
                                ELSE [segs.groups EXCEPT
                                        ![ps.group].first_tail[ps.position] = 0]]

\* output_path(): the line written (without its newline) and the groups after.
output_path(path_value_seg, groups, nsq, re) ==
    LET segs == output_segments(path_value_seg.segments, 1, path_value_seg.value_qq,
                                groups, nsq, re)
    IN  [segs EXCEPT !.text = TxtSet \o segs.text
                        \o (IF path_value_seg.value_qq # NULL
                            THEN <<" ">> \o path_value_seg.value_qq ELSE <<>>)]

\* ---------------------------------------------------------------- the input
\* aug_match(aug, "/files/descendant::*") and aug_get(): the nodes of the tree
\* below the root in document order, each with its path and value.  A label
\* shared by several siblings is followed by [n], n counting those siblings.
Node(label, value, kids) == [label |-> label, value |-> value, kids |-> kids]

SameLabelBefore(kids, i) == Cardinality({j \in 1..i : kids[j].label = kids[i].label})

NodePath(parent, kids, i) ==
    parent \o <<"/">> \o kids[i].label
    \o (IF Cardinality({j \in 1..Len(kids) : kids[j].label = kids[i].label}) > 1
        THEN <<"[">> \o ultoa(SameLabelBefore(kids, i)) \o <<"]">>
        ELSE <<>>)

RECURSIVE Descendants(_, _, _)
Descendants(parent, kids, i) ==
    IF i > Len(kids) THEN <<>>
    ELSE <<[path |-> NodePath(parent, kids, i), value |-> kids[i].value]>>
         \o Descendants(NodePath(parent, kids, i), kids[i].kids, 1)
         \o Descendants(parent, kids, i + 1)

\* The file node (its value is NULL) and everything below it.
Root == <<"/", "f">>
Matches(records) == <<[path |-> Root, value |-> NULL]>> \o Descendants(Root, records, 1)

SeqsUpTo(S, n) == UNION {[1..k -> S] : k \in 0..n}
SeqsFromTo(S, m, n) == UNION {[1..k -> S] : k \in m..n}

\* Records a[1]..a[n] of leaf fields: the chooser's four preferences.
FlatFields == {Node(<<"s">>, <<"x">>, <<>>), Node(<<"t">>, <<"x">>, <<>>),
               Node(<<"t">>, <<"y">>, <<>>)}
FlatRecords == {Node(<<"a">>, NULL, kids) : kids \in SeqsUpTo(FlatFields, MaxFields)}
FlatTrees == SeqsFromTo(FlatRecords, 1, MaxRecords)

\* Two records of one field more: lines after the one of the chosen tail.
LongRecords == {Node(<<"a">>, NULL, kids) :
                   kids \in SeqsFromTo(FlatFields, MaxFields + 1, MaxFields + 1)}
LongTrees == SeqsFromTo(LongRecords, 2, 2)

\* Records with NULL leaves, repeated labels and a third level.
DeepFields == {Node(<<"s">>, <<"x">>, <<>>), Node(<<"t">>, <<"y">>, <<>>),
               Node(<<"t">>, NULL, <<>>), Node(<<"b">>, <<"y">>, <<>>),
               Node(<<"b">>, NULL, <<Node(<<"c">>, <<"x">>, <<>>)>>)}
DeepRecords == {Node(<<"a">>, NULL, kids) : kids \in SeqsUpTo(DeepFields, MaxFields)}
DeepTrees == SeqsFromTo(DeepRecords, 1, MaxDeepRecords)

\* Records labelled by numbers, with and without a value, dense or not.
SeqRecordBodies == {[value |-> <<"x">>, kids |-> <<>>], [value |-> <<"y">>, kids |-> <<>>],
                    [value |-> NULL, kids |-> <<>>],
                    [value |-> NULL, kids |-> <<Node(<<"s">>, <<"x">>, <<>>)>>],
                    [value |-> NULL, kids |-> <<Node(<<"s">>, <<"y">>, <<>>)>>],
                    [value |-> NULL, kids |-> <<Node(<<"s">>, <<"x">>, <<>>),
                                                Node(<<"s">>, <<"x">>, <<>>)>>]}
SeqTrees ==
    {<<Node(ultoa(m), b.value, b.kids)>> : m \in 1..MaxSeqLabel, b \in SeqRecordBodies}
    \cup {<<Node(ultoa(m), b.value, b.kids), Node(ultoa(n), c.value, c.kids)>> :
             m \in 1..MaxSeqLabel, n \in 1..MaxSeqLabel,
             b \in SeqRecordBodies, c \in SeqRecordBodies}

HasSeqLabel(records) == \E i \in 1..Len(records) : IsDigit(records[i].label[1])
UniqueLabels(records) ==
    \A i, j \in 1..Len(records) :
        (IsDigit(records[i].label[1]) /\ i < j) => records[i].label # records[j].label

\* The squid.conf acls of the demo: localnet with three hosts, then SSL_ports.
V_src == <<"s", "r", "c">>
V_localnet == <<"l", "o", "c", "a", "l", "n", "e", "t">>
V_port == <<"p", "o", "r", "t">>
V_SSL_ports == <<"S", "S", "L", "_", "p", "o", "r", "t", "s">>
V_Safe_ports == <<"S", "a", "f", "e", "_", "p", "o", "r", "t", "s">>
L_acl == <<"a", "c", "l">>
L_type == <<"t", "y", "p", "e">>
L_setting == <<"s", "e", "t", "t", "i", "n", "g">>
L_host == <<"h", "o", "s", "t">>
L_port == <<"p", "o", "r", "t">>
SquidAclTree ==
    <<Node(L_acl, NULL, <<Node(L_type, V_src, <<>>), Node(L_setting, V_localnet, <<>>),
                          Node(L_host, <<"1">>, <<>>), Node(L_host, <<"2">>, <<>>),
                          Node(L_host, <<"3">>, <<>>)>>),
      Node(L_acl, NULL, <<Node(L_type, V_port, <<>>), Node(L_setting, V_SSL_ports, <<>>),
                          Node(L_port, <<"4", "4", "3">>, <<>>)>>)>>

\* Three acls that share setting = Safe_ports and differ in their port.
SafePortsTree ==
    <<Node(L_acl, NULL, <<Node(L_setting, V_Safe_ports, <<>>), Node(L_port, <<"8", "0">>, <<>>)>>),
      Node(L_acl, NULL, <<Node(L_setting, V_Safe_ports, <<>>), Node(L_port, <<"2", "1">>, <<>>)>>),
      Node(L_acl, NULL, <<Node(L_setting, V_Safe_ports, <<>>),
                          Node(L_port, <<"4", "4", "3">>, <<>>)>>)>>

Trees == FlatTrees \cup LongTrees \cup DeepTrees \cup {t \in SeqTrees : UniqueLabels(t)}
            \cup {SquidAclTree, SafePortsTree}

\* ------------------------------------------------------------ the program
VARIABLES
    matches,           \* all_matches with the value aug_get() gives for each
    noseq,             \* --noseq
    use_regexp,        \* --regexp[=n], 0 when not given
    pretty,            \* --pretty
    all_augeas_paths,  \* the entries main() has built so far
    all_groups,        \* the list of groups
    pc,                \* where main() is: ingest, choose, output, done, crashed
    ndx,               \* the number of iterations done of the loop main() is in
    out,               \* the lines written to stdout
    fn_arg,            \* a function on its own: its argument
    fn_ret             \* and what it returned

vars == <<matches, noseq, use_regexp, pretty, all_augeas_paths, all_groups, pc, ndx,
          out, fn_arg, fn_ret>>

num_matched == Len(matches)

\* The state main() starts its loop in, for a tree out of trees and the options
\* given.
InitWith(trees, options) ==
    /\ \E t \in trees :
          /\ matches = Matches(t)
          /\ noseq \in (IF HasSeqLabel(t) THEN BOOLEAN ELSE {FALSE})
    /\ \E o \in options : use_regexp = o[1] /\ pretty = o[2]
    /\ all_augeas_paths = <<>>
    /\ all_groups = <<>>
    /\ pc = "ingest"
    /\ ndx = 0
    /\ out = <<>>
    /\ fn_arg = NULL
    /\ fn_ret = NULL

InitMain(options) == InitWith(Trees, options)

Init == InitMain({<<0, FALSE>>})

\* One iteration of the loop of main() over the matches: the entry with its
\* quoted value and its segments, the segments added to their groups.
Ingest ==
    /\ pc = "ingest"
    /\ ndx < num_matched
    /\ LET path == matches[ndx + 1].path
           value == matches[ndx + 1].value
           value_qq == quote_value(value)
           sp == split_path(path, value, value_qq, all_groups, noseq, use_regexp)
       IN  IF sp.crashed
           THEN /\ pc' = "crashed"
                /\ UNCHANGED <<all_augeas_paths, all_groups, ndx>>
           ELSE /\ all_augeas_paths' = Append(all_augeas_paths,
                        [path |-> path, value |-> value, value_qq |-> value_qq,
                         segments |-> sp.segments])
                /\ all_groups' = sp.groups
                /\ ndx' = IF ndx + 1 = num_matched THEN 0 ELSE ndx + 1
                /\ pc' = IF ndx + 1 < num_matched THEN "ingest"
                         ELSE IF sp.groups = <<>> THEN "output" ELSE "choose"
    /\ UNCHANGED <<matches, noseq, use_regexp, pretty, out, fn_arg, fn_ret>>

\* One iteration of the loop of choose_all_tails() over the groups.
ChooseGroup ==
    /\ pc = "choose"
    /\ ndx < Len(all_groups)
    /\ LET cg == choose_group(all_groups[ndx + 1], use_regexp, pretty)
       IN  IF cg.crashed
           THEN /\ pc' = "crashed"
                /\ UNCHANGED <<all_groups, ndx>>
           ELSE /\ all_groups' = [all_groups EXCEPT ![ndx + 1] = cg.group]
                /\ ndx' = IF ndx + 1 = Len(all_groups) THEN 0 ELSE ndx + 1
                /\ pc' = IF ndx + 1 = Len(all_groups) THEN "output" ELSE "choose"
    /\ UNCHANGED <<matches, noseq, use_regexp, pretty, all_augeas_paths, out,
                   fn_arg, fn_ret>>

\* output() weeds out an entry without a value whose next entry is below it.
Skipped(paths, i) ==
    /\ paths[i].value = NULL \/ paths[i].value = <<>>
    /\ i < Len(paths)
    /\ str_ischild(paths[i].path, paths[i + 1].path)

\* The blank line written between groups only.
BlankAfter_group(paths, i) ==
    /\ i < Len(paths)
    /\ paths[i].segments[1].group # paths[i + 1].segments[1].group

\* The blank line --pretty writes after the last entry of a record.
BlankAfter(paths, i) ==
    /\ i < Len(paths)
    /\ LET this == paths[i].segments[1]
           next == paths[i + 1].segments[1]
       IN  this.group # next.group \/ (this.group # 0 /\ this.position # next.position)

AfterOutput(i) == IF i = num_matched THEN "done" ELSE "output"

\* An iteration of the loop of output() that writes nothing.
OutputSkip ==
    /\ pc = "output"
    /\ ndx < num_matched
    /\ Skipped(all_augeas_paths, ndx + 1)
    /\ ndx' = ndx + 1
    /\ pc' = AfterOutput(ndx + 1)
    /\ UNCHANGED <<matches, noseq, use_regexp, pretty, all_augeas_paths, all_groups,
                   out, fn_arg, fn_ret>>

\* An iteration of the loop of output() that writes the line of the entry.
\* Where output_segment() runs into undefined behaviour the process is either
\* killed or goes on.
OutputPath ==
    /\ pc = "output"
    /\ ndx < num_matched
    /\ ~Skipped(all_augeas_paths, ndx + 1)
    /\ LET op == output_path(all_augeas_paths[ndx + 1], all_groups, noseq, use_regexp)
       IN  \E killed \in (IF op.fatal THEN {TRUE}
                          ELSE IF op.undefined THEN BOOLEAN ELSE {FALSE}) :
               IF killed
               THEN /\ pc' = "crashed"
                    /\ UNCHANGED <<all_groups, ndx, out>>
               ELSE /\ all_groups' = op.groups
                    /\ out' = out \o <<[entry |-> ndx + 1, text |-> op.text, via |-> op.via]>>
                              \o (IF pretty /\ BlankAfter(all_augeas_paths, ndx + 1)
                                  THEN <<[entry |-> 0, text |-> <<>>, via |-> <<>>]>>
                                  ELSE <<>>)
                    /\ ndx' = ndx + 1
                    /\ pc' = AfterOutput(ndx + 1)
    /\ UNCHANGED <<matches, noseq, use_regexp, pretty, all_augeas_paths, fn_arg, fn_ret>>

Next == Ingest \/ ChooseGroup \/ OutputSkip \/ OutputPath

Spec == Init /\ [][Next]_vars

\* ------------------------------------------------------ a position of 0
\* One or two records of which one has the position 0: /0, or a[0].
ZeroTrees ==
    LET labels == {<<"0">>, <<"1">>, <<"a", "[", "0", "]">>, <<"a", "[", "1", "]">>}
        zero(l) == l \in {<<"0">>, <<"a", "[", "0", "]">>}
    IN  {<<Node(l, b.value, b.kids)>> : l \in {m \in labels : zero(m)}, b \in SeqRecordBodies}
        \cup {<<Node(t[1], t[3].value, t[3].kids), Node(t[2], t[4].value, t[4].kids)>> :
                 t \in {u \in labels \X labels \X SeqRecordBodies \X SeqRecordBodies :
                           u[1] # u[2] /\ (zero(u[1]) \/ zero(u[2]))}}

InitZero == InitWith(ZeroTrees, {<<0, FALSE>>})

SpecZero == InitZero /\ [][Next]_vars

\* ------------------------------------------------- --regexp and --pretty
\* Records a[n] of a field s, alone or followed by a field t, or of a field t
\* alone.  The values of s share prefixes of 0, 2 and 4 characters, one holds a
\* ], and one is a character longer than MAX_PRETTY_WIDTH; or of two records
\* b[n] of a field s.  One or two records, or two records of the same s and a
\* third of one field; three records whose third s has a ] where the first two
\* differ; and records numbered 1 and 2, 1 and 3 or 1 and 8, past the first
\* size of the position arrays.
OptionTrees ==
    LET values == {<<"a", "a", "a", "a", "a", "a">>, <<"a", "a", "b", "a", "a", "a">>,
                   <<"a", "a", "a", "a", "b">>, <<"b", "a", "a", "a", "a", "a", "a">>,
                   <<"a", "]", "a", "a", "a", "a">>,
                   [i \in 1..(MAX_PRETTY_WIDTH + 1) |-> "c"]}
        s == {Node(<<"s">>, v, <<>>) : v \in values}
        t == {Node(<<"t">>, <<"x">>, <<>>), Node(<<"t">>, <<"y">>, <<>>)}
        one == {Node(<<"a">>, NULL, <<f>>) : f \in s \cup {Node(<<"t">>, <<"x">>, <<>>)}}
        two == {Node(<<"a">>, NULL, <<f, g>>) : f \in s, g \in t}
        b(v) == Node(<<"b">>, NULL, <<Node(<<"s">>, v, <<>>)>>)
        deep == {Node(<<"a">>, NULL, <<b(<<"a", "a", "a", "a", "a", "a">>), b(v)>>) :
                    v \in {<<"a", "a", "a", "a", "a", "a">>, <<"a", "a", "b", "a", "a", "a">>}}
        of(v) == Node(<<"a">>, NULL, <<Node(<<"s">>, v, <<>>)>>)
        wild == <<of(<<"a", "a", "a", "a", "a", "a">>), of(<<"a", "b", "a", "a", "a", "a">>),
                  of(<<"a", "]", "a", "a", "a", "a">>)>>
        numbered == {<<Node(<<"1">>, NULL, <<f>>), Node(ultoa(n), NULL, <<g>>)>> :
                        n \in {2, 3, 8}, f \in t, g \in t}
    IN  SeqsFromTo(one \cup two \cup deep, 1, 2)
        \cup {<<Node(<<"a">>, NULL, <<f, g>>), Node(<<"a">>, NULL, <<f, h>>), r>> :
                 f \in s, g \in t, h \in t, r \in one}
        \cup {wild} \cup numbered

\* --regexp=1, --regexp=3 with --pretty, and --pretty alone.
InitOptions == InitWith(OptionTrees, {<<1, FALSE>>, <<3, TRUE>>, <<0, TRUE>>})

SpecOptions == InitOptions /\ [][Next]_vars

\* ------------------------------------------------- quote_value on its own
\* The characters quote_value() tells apart, and one it copies.
QuoteAlphabet == {"a", "'", "\"", "\n", "\t", "\\"}
QuoteExample == <<"a", "'", "b", "\"", "c">>
QuoteValues == SeqsUpTo(QuoteAlphabet, MaxValueLen) \cup {QuoteExample, NULL}

InitQuote ==
    /\ fn_arg \in QuoteValues
    /\ fn_ret = NULL
    /\ pc = "call"
    /\ matches = <<>>
    /\ noseq = FALSE
    /\ use_regexp = 0
    /\ pretty = FALSE
    /\ all_augeas_paths = <<>>
    /\ all_groups = <<>>
    /\ ndx = 0
    /\ out = <<>>

\* value_qq = quote_value(value)
QuoteValue ==
    /\ pc = "call"
    /\ fn_ret' = quote_value(fn_arg)
    /\ pc' = "returned"
    /\ UNCHANGED <<matches, noseq, use_regexp, pretty, all_augeas_paths, all_groups,
                   ndx, out, fn_arg>>

NextQuote == QuoteValue

SpecQuote == InitQuote /\ [][NextQuote]_vars

\* --------------------------------------------------- split_path on its own
\* The steps a path is made of: a label with or without [n], a label that is a
\* number, with a leading zero or without, and labels with a digit or a bracket
\* that make no marker.
PathSteps ==
    {<<"/">> \o label \o marker :
        label \in {<<"a">>, <<"b">>},
        marker \in {<<>>, <<"[", "0", "]">>, <<"[", "1", "]">>, <<"[", "2", "]">>}}
    \cup {<<"/", "0">>, <<"/", "1">>, <<"/", "2">>, <<"/", "0", "1">>}
    \cup {<<"/", "1", "x">>, <<"/", "a", "[", "1", "x", "]">>, <<"/", "a", "[", "x", "]">>}

RECURSIVE Concat(_, _)
Concat(steps, i) == IF i > Len(steps) THEN <<>> ELSE steps[i] \o Concat(steps, i + 1)

\* The absolute paths of one to MaxSteps steps.
SplitPaths == {Concat(steps, 1) : steps \in SeqsFromTo(PathSteps, 1, MaxSteps)}

InitSplit ==
    /\ fn_arg \in SplitPaths
    /\ fn_ret = NULL
    /\ pc = "call"
    /\ matches = <<>>
    /\ noseq = FALSE
    /\ use_regexp = 0
    /\ pretty = FALSE
    /\ all_augeas_paths = <<>>
    /\ all_groups = <<>>
    /\ ndx = 0
    /\ out = <<>>

\* all_augeas_paths[ndx]->segments = split_path(all_augeas_paths[ndx]) on the
\* first entry main() builds: no group exists yet.
SplitPath ==
    /\ pc = "call"
    /\ fn_ret' = split_path(fn_arg, <<"x">>, quote_value(<<"x">>), all_groups, noseq,
                            use_regexp)
    /\ pc' = "returned"
    /\ UNCHANGED <<matches, noseq, use_regexp, pretty, all_augeas_paths, all_groups,
                   ndx, out, fn_arg>>

SpecSplit == InitSplit /\ [][SplitPath]_vars

\* ------------------------------------------------- main() before its loop
\* main() from the command line to the loaded file.  fn_arg holds what the
\* command line gives (lens and target_file, NULL when not given, verbose,
\* help, and the number of arguments that are no option), fn_ret the messages
\* on stderr, out the lines on stdout, pc the place main() is at or the exit
\* code it ended with.
InitStartup ==
    /\ fn_arg \in [lens : {NULL, <<"l">>},
                   target_file : {NULL, <<"/", "t">>, <<"t">>},
                   verbose : BOOLEAN, help : BOOLEAN, files : 0..2]
    /\ pc = "options"
    /\ out = <<>>
    /\ fn_ret = <<>>
    /\ matches = <<>>
    /\ noseq = FALSE
    /\ use_regexp = 0
    /\ pretty = FALSE
    /\ all_augeas_paths = <<>>
    /\ all_groups = <<>>
    /\ ndx = 0

\* The getopt_long() loop: --target must be an absolute path.
ParseOptions ==
    /\ pc = "options"
    /\ IF fn_arg.target_file # NULL /\ fn_arg.target_file[1] # "/"
       THEN pc' = "exit(1)" /\ fn_ret' = Append(fn_ret, "Error: target must be an absolute path")
       ELSE pc' = "arguments" /\ UNCHANGED fn_ret
    /\ UNCHANGED <<matches, noseq, use_regexp, pretty, all_augeas_paths, all_groups,
                   ndx, out, fn_arg>>

\* --help, and the one argument that is the file to read.
CheckArguments ==
    /\ pc = "arguments"
    /\ IF fn_arg.help
       THEN /\ pc' = "exit(0)"
            /\ out' = Append(out, [entry |-> 0, text |-> <<"U", "s", "a", "g", "e">>,
                                   via |-> <<>>])
            /\ UNCHANGED fn_ret
       ELSE IF fn_arg.files = 1
       THEN pc' = "lens" /\ UNCHANGED <<out, fn_ret>>
       ELSE IF fn_arg.files = 0
       THEN /\ pc' = "exit(1)"
            /\ fn_ret' = Append(fn_ret, "Missing command-line argument")
            /\ UNCHANGED out
       ELSE /\ pc' = "exit(1)"
            /\ fn_ret' = Append(fn_ret, "Too many command-line arguments")
            /\ UNCHANGED out
    /\ UNCHANGED <<matches, noseq, use_regexp, pretty, all_augeas_paths, all_groups,
                   ndx, fn_arg>>

\* The lens of --target when no --lens is given: the first of the lenses
\* aug_match() finds for it.
InferLens ==
    /\ pc = "lens"
    /\ IF fn_arg.target_file # NULL /\ fn_arg.lens = NULL
       THEN \E num_lenses \in 0..2 :
               IF num_lenses = 0
               THEN /\ pc' = "exit(1)"
                    /\ fn_ret' = Append(fn_ret, "Aborting - no lens applies for target")
                    /\ UNCHANGED fn_arg
               ELSE /\ pc' = "transform"
                    /\ fn_arg' = [fn_arg EXCEPT !.lens = <<"m">>]
                    /\ fn_ret' = IF num_lenses > 1
                                 THEN Append(fn_ret, "Warning: multiple lenses apply to target")
                                 ELSE fn_ret
       ELSE pc' = "transform" /\ UNCHANGED <<fn_arg, fn_ret>>
    /\ UNCHANGED <<matches, noseq, use_regexp, pretty, all_augeas_paths, all_groups,
                   ndx, out>>

\* The transform of the lens: its line is written to stdout before
\* aug_transform() is called, unless --target is given without --verbose.
Transform ==
    /\ pc = "transform"
    /\ IF fn_arg.lens # NULL
       THEN LET line(file) == [entry |-> 0,
                               text |-> <<"t", "r", "a", "n", "s", "f", "o", "r", "m", " ">>
                                        \o fn_arg.lens \o <<" ", "i", "n", "c", "l", " ">>
                                        \o file,
                               via |-> <<>>]
            IN  /\ out' = IF fn_arg.target_file # NULL
                          THEN IF fn_arg.verbose THEN Append(out, line(fn_arg.target_file))
                               ELSE out
                          ELSE Append(out, line(<<"/", "f">>))
                /\ \E aug_transform \in {0, -1} :
                      IF aug_transform # 0
                      THEN pc' = "exit(1)" /\ fn_ret' = Append(fn_ret, "aug_error_details")
                      ELSE pc' = "load" /\ UNCHANGED fn_ret
       ELSE pc' = "load" /\ UNCHANGED <<out, fn_ret>>
    /\ UNCHANGED <<matches, noseq, use_regexp, pretty, all_augeas_paths, all_groups,
                   ndx, fn_arg>>

\* aug_load_file() of the file to read.
LoadFile ==
    /\ pc = "load"
    /\ \E aug_load_file \in {0, -1} :
          IF aug_load_file # 0
          THEN pc' = "exit(1)" /\ fn_ret' = Append(fn_ret, "Failed to load file")
          ELSE pc' = "loaded" /\ UNCHANGED fn_ret
    /\ UNCHANGED <<matches, noseq, use_regexp, pretty, all_augeas_paths, all_groups,
                   ndx, out, fn_arg>>

SpecStartup ==
    InitStartup /\ [][ParseOptions \/ CheckArguments \/ InferLens \/ Transform \/ LoadFile]_vars

\* ------------------------------------------------------------------ replay
\* The replay of the lines written, as the round trip has it: every "set"
\* selects the node its path expression matches, or creates the steps that
\* match nothing, on a tree that starts empty.  A tree is the sequence of its
\* nodes in the order they were made, each with its parent (0 is the node above
\* the file node), label and value; siblings keep the order they were made in.
ChildrenOf(tree, n) ==
    SelectSeq([i \in 1..Len(tree) |-> i], LAMBDA i : tree[i].parent = n)

RECURSIVE DocOrderFrom(_, _, _)
\* The nodes below the children kids[i..] of one node, in document order.
DocOrderFrom(tree, kids, i) ==
    IF i > Len(kids) THEN <<>>
    ELSE <<kids[i]>> \o DocOrderFrom(tree, ChildrenOf(tree, kids[i]), 1)
         \o DocOrderFrom(tree, kids, i + 1)

DocOrder(tree) == DocOrderFrom(tree, ChildrenOf(tree, 0), 1)

IsNumber(label) == label # <<>> /\ \A i \in 1..Len(label) : IsDigit(label[i])

\* Whether the node passes the name test of a step: seq::* takes the numbered
\* nodes, * takes every node, a label takes the nodes of that label.
NameTest(tree, n, name) ==
    IF name = TxtSeq THEN IsNumber(tree[n].label)
    ELSE IF name = TxtStar THEN TRUE
    ELSE tree[n].label = name

RECURSIVE SplitLabels(_, _, _)
\* The labels of a path a/b/c or /a/b/c, from position i, cur being the part
\* of the label read so far.
SplitLabels(text, i, cur) ==
    IF i > Len(text) THEN (IF cur = <<>> THEN <<>> ELSE <<cur>>)
    ELSE IF text[i] = "/"
    THEN (IF cur = <<>> THEN <<>> ELSE <<cur>>) \o SplitLabels(text, i + 1, <<>>)
    ELSE SplitLabels(text, i + 1, Append(cur, text[i]))

RECURSIVE Below(_, _, _, _)
\* The nodes a relative path labels[k..] reaches from node n.
Below(tree, n, labels, k) ==
    IF k > Len(labels) THEN {n}
    ELSE UNION {Below(tree, c, labels, k + 1) :
                   c \in {c \in 1..Len(tree) : /\ tree[c].parent = n
                                                 /\ NameTest(tree, c, labels[k])}}

\* The labels of the path expression simple_tail_expr() gives for a tail: none
\* for ".", the node itself.
TailLabels(tail) ==
    IF tail.simple_tail = <<>> THEN <<>>
    ELSE SplitLabels(simple_tail_expr(tail.simple_tail), 1, <<>>)

\* tail = 'value', or tail alone for a tail without a value.
TailEquals(tree, n, tail) ==
    \E m \in Below(tree, n, TailLabels(tail), 1) :
        tail.value = NULL \/ tree[m].value = tail.value

\* count(tail) = 0
TailCountIsZero(tree, n, tail) == Below(tree, n, TailLabels(tail), 1) = {}

\* Whether node n passes the predicate one output_segment() call wrote.
PredicateHolds(tree, n, through, groups) ==
    LET chosen == groups[through.group].all_tails[through.chosen]
        first == groups[through.group].all_tails[through.first]
    IN  CASE through.state \in {FIRST_TAIL, CHOSEN_TAIL_START, CHOSEN_TAIL_DONE,
                                FIRST_TAIL_PLUS_POSITION} ->
               TailEquals(tree, n, chosen)
          [] through.state = CHOSEN_TAIL_WIP ->
               TailEquals(tree, n, chosen) \/ TailCountIsZero(tree, n, chosen)
          [] through.state \in {CHOSEN_TAIL_PLUS_FIRST_TAIL_START,
                                CHOSEN_TAIL_PLUS_FIRST_TAIL_DONE} ->
               TailEquals(tree, n, first) /\ TailEquals(tree, n, chosen)
          [] through.state = CHOSEN_TAIL_PLUS_FIRST_TAIL_WIP ->
               /\ TailEquals(tree, n, first)
               /\ TailEquals(tree, n, chosen) \/ TailCountIsZero(tree, n, chosen)
          [] OTHER -> ChildrenOf(tree, n) # <<>>

\* The nodes of the list that pass the predicates of a step: the test on the
\* tails and then, for [k], the k-th of those that passed.
Filter(tree, list, through, groups) ==
    IF through.group = 0 THEN list
    ELSE LET passed == SelectSeq(list, LAMBDA n : PredicateHolds(tree, n, through, groups))
         IN  IF through.state # FIRST_TAIL_PLUS_POSITION THEN passed
             ELSE IF through.ordinal \in 1..Len(passed) THEN <<passed[through.ordinal]>>
             ELSE <<>>

NoPredicate ==
    [segment |-> <<>>, group |-> 0, position |-> ULONG_MAX, state |-> NOT_DONE,
     chosen |-> 0, first |-> 0, ordinal |-> 0, predicate |-> <<>>]

\* The steps of one segment as written: its labels, seq::* or * after a trailing
\* '/', and the predicate on the last of them.
SegmentSteps(through, nsq) ==
    LET labels == SplitLabels(through.segment, 1, <<>>)
                  \o (IF through.segment[Len(through.segment)] = "/"
                      THEN <<IF nsq THEN TxtStar ELSE TxtSeq>> ELSE <<>>)
    IN  [k \in 1..Len(labels) |->
            [name |-> labels[k],
             through |-> IF k = Len(labels) THEN through ELSE NoPredicate]]

RECURSIVE LineSteps(_, _, _)
LineSteps(via, k, nsq) ==
    IF k > Len(via) THEN <<>>
    ELSE SegmentSteps(via[k], nsq) \o LineSteps(via, k + 1, nsq)

RECURSIVE Evaluate(_, _, _, _, _)
\* The steps from k on evaluated from the nodes ctx: how many steps matched
\* and the nodes the last of them matched.
Evaluate(tree, steps, k, ctx, groups) ==
    IF k > Len(steps) THEN [matched |-> Len(steps), nodes |-> ctx]
    ELSE LET candidates ==
                 SelectSeq(DocOrder(tree), LAMBDA c :
                     /\ \E i \in 1..Len(ctx) : tree[c].parent = ctx[i]
                     /\ NameTest(tree, c, steps[k].name))
             next == Filter(tree, candidates, steps[k].through, groups)
         IN  IF next = <<>> THEN [matched |-> k - 1, nodes |-> ctx]
             ELSE Evaluate(tree, steps, k + 1, next, groups)

\* The label of a node made for a step: the name, or for seq::* the number
\* after the highest numbered child of the parent.
NewLabel(tree, parent, name) ==
    IF name # TxtSeq THEN name
    ELSE LET numbers == {strtoul(tree[c].label, 1).val :
                            c \in {c \in 1..Len(tree) : /\ tree[c].parent = parent
                                                          /\ IsNumber(tree[c].label)}}
         IN  ultoa(1 + (IF numbers = {} THEN 0
                        ELSE CHOOSE m \in numbers : \A n \in numbers : n <= m))

RECURSIVE Create(_, _, _, _)
\* The tree with a node made for each of the steps from k on, below parent.
Create(tree, parent, steps, k) ==
    IF k > Len(steps) THEN tree
    ELSE Create(Append(tree, [parent |-> parent,
                              label |-> NewLabel(tree, parent, steps[k].name),
                              value |-> NULL]),
                Len(tree) + 1, steps, k + 1)

\* One "set": fails when the steps that match, match several nodes, or when a
\* step that matches nothing is a *.
ReplaySet(replayed, steps, value, groups) ==
    LET tree == replayed.tree
        ev == Evaluate(tree, steps, 1, <<0>>, groups)
    IN  IF replayed.failed \/ Len(ev.nodes) # 1 THEN [replayed EXCEPT !.failed = TRUE]
        ELSE IF ev.matched = Len(steps)
        THEN [replayed EXCEPT !.tree[ev.nodes[1]].value = value]
        ELSE IF \E k \in (ev.matched + 1)..Len(steps) : steps[k].name = TxtStar
        THEN [replayed EXCEPT !.failed = TRUE]
        ELSE LET made == Create(tree, ev.nodes[1], steps, ev.matched + 1)
             IN  [replayed EXCEPT !.tree = [made EXCEPT ![Len(made)].value = value]]

RECURSIVE Replay(_, _, _, _, _)
\* The lines from i on replayed in the order written.
Replay(replayed, lines, i, paths, groups) ==
    IF i > Len(lines) THEN replayed
    ELSE IF lines[i].entry = 0 THEN Replay(replayed, lines, i + 1, paths, groups)
    ELSE Replay(ReplaySet(replayed, LineSteps(lines[i].via, 1, noseq),
                          paths[lines[i].entry].value, groups),
                lines, i + 1, paths, groups)

\* The children of a node as the records the input trees are made of.
RECURSIVE AsRecords(_, _, _)
AsRecords(tree, kids, i) ==
    IF i > Len(kids) THEN <<>>
    ELSE <<Node(tree[kids[i]].label, tree[kids[i]].value,
                AsRecords(tree, ChildrenOf(tree, kids[i]), 1))>>
         \o AsRecords(tree, kids, i + 1)

\* What aug_match() and aug_get() give for the tree.
Listing(tree) == Descendants(<<>>, AsRecords(tree, ChildrenOf(tree, 0), 1), 1)

\* ================================================================== claims
\* What the claims read.
Chosen == pc \in {"output", "done"}
Lines == 1..Len(out)
Quoted(v) == <<"'">> \o v \o <<"'">>
CountIn(s, S) == Cardinality({i \in 1..Len(s) : s[i] \in S})

\* Whether sub occurs in text.
Contains(text, sub) ==
    \E i \in 1..(Len(text) - Len(sub) + 1) : SubSeq(text, i, i + Len(sub) - 1) = sub

\* ----------------------------------------------------------------------- C6
\* Reading a quoted literal back from position i up to its closing delimiter:
\* a backslash and the character after it stand for one character.
RECURSIVE Unquote(_, _)
Unquote(q, i) ==
    IF i >= Len(q) THEN <<>>
    ELSE IF q[i] = "\\" /\ i + 1 < Len(q)
    THEN <<(CASE q[i + 1] = "n" -> "\n" [] q[i + 1] = "t" -> "\t" [] OTHER -> q[i + 1])>>
         \o Unquote(q, i + 2)
    ELSE <<q[i]>> \o Unquote(q, i + 1)

Delimiter(v) ==
    IF CountIn(v, {"'"}) = 0 THEN "'" ELSE IF CountIn(v, {"\""}) = 0 THEN "\"" ELSE "'"

QuoteExampleQuoted == <<"'", "a", "\\", "'", "b", "\"", "c", "'">>

\* C6: for a value that is not NULL quote_value() returns a literal delimited by
\* ' when the value has no ', by " when it has ' and no ", and by ' with every
\* inner ' written as \' when it has both; newline, tab and backslash are written
\* as \n, \t and \\, every other character is copied, so that the literal has
\* one character more for each of these and reads back as the value; a'b"c
\* becomes 'a\'b"c'.
C6_QuoteValue ==
    (pc = "returned" /\ fn_arg # NULL) =>
        /\ Len(fn_ret) >= 2
        /\ fn_ret[1] = Delimiter(fn_arg)
        /\ fn_ret[Len(fn_ret)] = Delimiter(fn_arg)
        /\ Len(fn_ret) = Len(fn_arg) + 2 + CountIn(fn_arg, {"\n", "\t", "\\"})
                         + CountIn(fn_arg, {Delimiter(fn_arg)})
        /\ CountIn(fn_ret, {"\n", "\t"}) = 0
        /\ Unquote(fn_ret, 2) = fn_arg
        /\ (fn_arg = QuoteExample => fn_ret = QuoteExampleQuoted)

C6_Witness == pc = "returned" /\ fn_arg = QuoteExample /\ fn_ret = QuoteExampleQuoted

\* ----------------------------------------------------------------------- C9
\* The input is the file node and one entry /f/n with a value.
SingleSeqEntry ==
    /\ Len(matches) = 2
    /\ matches[2].value # NULL
    /\ \E n \in 1..MaxSeqLabel : matches[2].path = Root \o <<"/">> \o ultoa(n)

SeqName == IF noseq THEN <<"*">> ELSE <<"s", "e", "q", ":", ":", "*">>

\* C9 (as the code has it): the line of a single entry /f/n with a value is
\* set /f/seq::*[.='value'] 'value': the position is replaced by seq::* (by *
\* under --noseq) and followed by the predicate on the value of the node itself.
C9_SelfValuePredicate ==
    (SingleSeqEntry /\ pc = "done") =>
        /\ Len(out) = 1
        /\ out[1].text = TxtSet \o Root \o <<"/">> \o SeqName \o <<"[", ".", "=">>
                         \o Quoted(matches[2].value) \o <<"]", " ">>
                         \o Quoted(matches[2].value)

\* C9 (as stated): the line is set <head>seq::* <quoted value> with nothing
\* between seq::* and the value.
C9_NoPredicate ==
    (SingleSeqEntry /\ pc = "done") =>
        /\ Len(out) = 1
        /\ out[1].text = TxtSet \o Root \o <<"/">> \o SeqName \o <<" ">>
                         \o Quoted(matches[2].value)

C9_Witness ==
    /\ SingleSeqEntry
    /\ pc = "done"
    /\ ~noseq
    /\ out[1].text = <<"s", "e", "t", " ", "/", "f", "/", "s", "e", "q", ":", ":", "*", "[", ".", "=", "'", "x", "'", "]", " ", "'", "x", "'">>

\* ----------------------------------------------------------------------- C7
SquidAcl == matches = Matches(SquidAclTree)
AclGroup == GroupIndex(all_groups, Root \o <<"/">> \o L_acl)
ThroughAcl(line, p) ==
    line.entry # 0 /\ line.via[1].group = AclGroup /\ line.via[1].position = p
LinesThroughAcl(p) == {i \in Lines : ThroughAcl(out[i], p)}

\* C7 (as the code has it): with acl[1] = (type=src, setting=localnet, three
\* hosts) and acl[2] = (type=port, setting=SSL_ports, port=443), position 2 is
\* chosen under the first preference and each of the three lines through acl[2]
\* carries the predicate on its first tail, [type='port'].
C7_Acl2TypePredicate ==
    (SquidAcl /\ Chosen) =>
        /\ all_groups[AclGroup].chosen_tail_state[2] = FIRST_TAIL
        /\ \A i \in LinesThroughAcl(2) : out[i].via[1].predicate = <<"[", "t", "y", "p", "e", "=", "'", "p", "o", "r", "t", "'", "]">>
        /\ pc = "done" => Cardinality(LinesThroughAcl(2)) = 3

\* C7 (as stated): position 2 is chosen under the first preference and every
\* line through acl[2] carries [setting='SSL_ports'].
C7_Acl2SettingPredicate ==
    (SquidAcl /\ Chosen) =>
        /\ all_groups[AclGroup].chosen_tail_state[2] = FIRST_TAIL
        /\ \A i \in LinesThroughAcl(2) : out[i].via[1].predicate = <<"[", "s", "e", "t", "t", "i", "n", "g", "=", "'", "S", "S", "L", "_", "p", "o", "r", "t", "s", "'", "]">>
        /\ pc = "done" => Cardinality(LinesThroughAcl(2)) = 3

C7_Witness ==
    /\ SquidAcl
    /\ pc = "done"
    /\ \E i \in LinesThroughAcl(2) : out[i].text = <<"s", "e", "t", " ", "/", "f", "/", "a", "c", "l", "[", "t", "y", "p", "e", "=", "'", "p", "o", "r", "t", "'", "]", "/", "s", "e", "t", "t", "i", "n", "g", " ", "'", "S", "S", "L", "_", "p", "o", "r", "t", "s", "'">>

\* ----------------------------------------------------------------------- C8
SafePorts == matches = Matches(SafePortsTree)
PortOf(p) == SafePortsTree[p].kids[2].value
SecondTierStates == {CHOSEN_TAIL_START, CHOSEN_TAIL_WIP, CHOSEN_TAIL_DONE}
ThirdTierStates == {CHOSEN_TAIL_PLUS_FIRST_TAIL_START, CHOSEN_TAIL_PLUS_FIRST_TAIL_WIP,
                    CHOSEN_TAIL_PLUS_FIRST_TAIL_DONE}
ChosenIsPort(p) ==
    LET g == all_groups[AclGroup] IN
    /\ g.chosen_tail[p] # 0
    /\ g.all_tails[g.chosen_tail[p]].simple_tail = <<"/">> \o L_port
    /\ g.all_tails[g.chosen_tail[p]].value = PortOf(p)
PortEquals(p) == L_port \o <<"=">> \o Quoted(PortOf(p))
PortOrCount(p) == PortEquals(p) \o TxtOrCount \o L_port \o TxtIsZero
SettingEquals == L_setting \o <<"=">> \o Quoted(V_Safe_ports)

\* C8 (as the code has it): with three acls of setting = Safe_ports and ports
\* 80, 21 and 443, every position is chosen under the second preference (state
\* CHOSEN_TAIL_START, chosen tail port with its own value: the port is unique in
\* the group and every acl has one) and its lines carry [port='v'], with
\* or count(port)=0 on the line that sets the port.
C8_SafePortsSecondTier ==
    (SafePorts /\ Chosen) =>
        \A p \in 1..3 :
            /\ ChosenIsPort(p)
            /\ all_groups[AclGroup].chosen_tail_state[p] \in SecondTierStates
            /\ (pc = "output" /\ ndx = 0) =>
                   all_groups[AclGroup].chosen_tail_state[p] = CHOSEN_TAIL_START
            /\ \A i \in LinesThroughAcl(p) :
                   out[i].via[1].predicate \in
                       {<<"[">> \o PortEquals(p) \o <<"]">>,
                        <<"[">> \o PortOrCount(p) \o <<"]">>}
            /\ pc = "done" => Cardinality(LinesThroughAcl(p)) = 2

\* C8 (as stated): every position is chosen under the third preference (state
\* CHOSEN_TAIL_PLUS_FIRST_TAIL_START, chosen tail port) and its lines carry the
\* compound predicate of setting='Safe_ports' and its own port.
C8_SafePortsThirdTier ==
    (SafePorts /\ Chosen) =>
        \A p \in 1..3 :
            /\ ChosenIsPort(p)
            /\ all_groups[AclGroup].chosen_tail_state[p] \in ThirdTierStates
            /\ (pc = "output" /\ ndx = 0) =>
                   all_groups[AclGroup].chosen_tail_state[p] =
                       CHOSEN_TAIL_PLUS_FIRST_TAIL_START
            /\ \A i \in LinesThroughAcl(p) :
                   out[i].via[1].predicate \in
                       {<<"[">> \o SettingEquals \o TxtAnd \o PortEquals(p) \o <<"]">>,
                        <<"[">> \o SettingEquals \o TxtAndParen \o PortOrCount(p)
                            \o <<" ", ")", " ", "]">>}
            /\ pc = "done" => Cardinality(LinesThroughAcl(p)) = 2

C8_Witness ==
    /\ SafePorts
    /\ pc = "done"
    /\ Len(out) = 6
    /\ out[1].text = <<"s", "e", "t", " ", "/", "f", "/", "a", "c", "l", "[", "p", "o", "r", "t", "=", "'", "8", "0", "'", "]", "/", "s", "e", "t", "t", "i", "n", "g", " ", "'", "S", "a", "f", "e", "_", "p", "o", "r", "t", "s", "'">>
    /\ out[2].text = <<"s", "e", "t", " ", "/", "f", "/", "a", "c", "l", "[", "p", "o", "r", "t", "=", "'", "8", "0", "'", " ", "o", "r", " ", "c", "o", "u", "n", "t", "(", "p", "o", "r", "t", ")", "=", "0", "]", "/", "p", "o", "r", "t", " ", "'", "8", "0", "'">>

\* ---------------------------------------------------------------------- C10
\* The number of entries of the record at the position whose simplified tail and
\* value are those of the tail.
PairCount(g, position, tail) ==
    Cardinality({e \in 1..Len(all_augeas_paths) :
        \E k \in 1..Len(all_augeas_paths[e].segments) :
            /\ all_augeas_paths[e].segments[k].group = g
            /\ all_augeas_paths[e].segments[k].position = position
            /\ all_augeas_paths[e].segments[k].simplified_tail
                   = all_groups[g].all_tails[tail].simple_tail
            /\ all_augeas_paths[e].value = all_groups[g].all_tails[tail].value})

\* C10 (as the code has it): in a group whose only position is 1, position 1 is
\* resolved under the first preference exactly when the (simplified tail, value)
\* of the first tail occurs once in the record; a record that repeats it gets a
\* later preference.
C10_SinglePositionFirstTier ==
    Chosen =>
        \A g \in 1..Len(all_groups) :
            all_groups[g].max_position = 1 =>
                /\ all_groups[g].first_tail[1] # 0
                /\ all_groups[g].chosen_tail_state[1] = FIRST_TAIL
                       <=> PairCount(g, 1, all_groups[g].first_tail[1]) = 1

\* C10 (as stated): in a group whose only position is 1, position 1 is resolved
\* under the first preference whatever tails the record has.
C10_SinglePositionAlwaysFirst ==
    Chosen =>
        \A g \in 1..Len(all_groups) :
            all_groups[g].max_position = 1 =>
                all_groups[g].chosen_tail_state[1] = FIRST_TAIL

C10_Witness ==
    /\ pc = "done"
    /\ \E g \in 1..Len(all_groups) :
          /\ all_groups[g].max_position = 1
          /\ Len(all_groups[g].tails_at_position[1]) = 2
          /\ all_groups[g].chosen_tail_state[1] = FIRST_TAIL

\* ----------------------------------------------------------------------- C1
\* The last label of a path and the path of its parent.
LastLabel(path) == SplitLabels(path, 1, <<>>)[Len(SplitLabels(path, 1, <<>>))]
ParentPath(path) == SubSeq(path, 1, Len(path) - Len(LastLabel(path)) - 1)

\* The numbered nodes of the input are numbered 1, 2, ... in their order, as
\* seq::* numbers the nodes it makes.
DenseNumbers ==
    \A i \in 1..Len(matches) :
        IsNumber(LastLabel(matches[i].path)) =>
            strtoul(LastLabel(matches[i].path), 1).val =
                1 + Cardinality({j \in 1..(i - 1) :
                        /\ IsNumber(LastLabel(matches[j].path))
                        /\ ParentPath(matches[j].path) = ParentPath(matches[i].path)})

Replayed == Replay([tree |-> <<>>, failed |-> FALSE], out, 1, all_augeas_paths, all_groups)

\* C1: once the program has written its last line, replaying the lines in the
\* order written against an empty tree gives the tree that was read: the same
\* labels in the same sibling order with the same values.
C1_RoundTrip ==
    (pc = "done" /\ ~noseq /\ DenseNumbers) =>
        /\ ~Replayed.failed
        /\ Listing(Replayed.tree) = matches

\* ----------------------------------------------------------------------- C2
\* The preference a state belongs to.
TierOf(state) ==
    CASE state = FIRST_TAIL -> 1
      [] state \in SecondTierStates -> 2
      [] state \in ThirdTierStates -> 3
      [] state = FIRST_TAIL_PLUS_POSITION -> 4
      [] OTHER -> 0

\* Stub i is the first of the record at the position with its simplified tail.
FirstOccurrence(group, stubs, i) ==
    \A j \in 1..(i - 1) :
        group.all_tails[stubs[j]].simple_tail # group.all_tails[stubs[i]].simple_tail

\* The positions of the group that hold the tail.
SubgroupOf(group, tail) ==
    {q \in 1..group.max_position :
        \E j \in 1..Len(group.tails_at_position[q]) : group.tails_at_position[q][j] = tail}

SecondTierHolds(group, stubs, f) ==
    \E i \in f..Len(stubs) :
        /\ group.all_tails[stubs[i]].tail_value_found = 1
        /\ \A q \in 1..group.max_position : group.all_tails[stubs[i]].tail_found_map[q] >= 1
        /\ FirstOccurrence(group, stubs, i)

ThirdTierHolds(group, stubs, f, p) ==
    \E i \in (f + 1)..Len(stubs) :
        /\ \A q \in SubgroupOf(group, stubs[f]) \ {p} :
              group.all_tails[stubs[i]].tail_value_found_map[q] = 0
        /\ \A q \in SubgroupOf(group, stubs[f]) :
              group.all_tails[stubs[i]].tail_found_map[q] >= 1
        /\ FirstOccurrence(group, stubs, i)

\* The lowest preference whose conditions hold at position p.
LowestTier(group, p) ==
    LET stubs == group.tails_at_position[p]
        f == find_first_tail(stubs, group.all_tails)
    IN  IF group.all_tails[stubs[f]].tail_value_found = 1 THEN 1
        ELSE IF SecondTierHolds(group, stubs, f) THEN 2
        ELSE IF ThirdTierHolds(group, stubs, f, p) THEN 3
        ELSE 4

\* C2: for every group and every position with entries choose_tail() selects
\* the lowest preference whose conditions hold: the first iff the first tail is
\* found once; else the second iff a tail from the first tail on is found once,
\* is found at every position and is the first of its simplified tail at the
\* position; else the third iff a tail after the first tail is found with its
\* value at no other position of the subgroup, is found at every position of the
\* subgroup and is the first of its simplified tail at the position; else the
\* fourth.
C2_LowestTier ==
    Chosen =>
        \A g \in 1..Len(all_groups) :
            \A p \in 1..all_groups[g].max_position :
                all_groups[g].tails_at_position[p] # <<>> =>
                    TierOf(all_groups[g].chosen_tail_state[p]) = LowestTier(all_groups[g], p)

\* ----------------------------------------------------------------------- C3
\* The lines written through position p of group g, and what each went through.
LinesThrough(g, p) ==
    {i \in Lines : \E k \in 1..Len(out[i].via) :
                      out[i].via[k].group = g /\ out[i].via[k].position = p}
SegmentThrough(i, g, p) ==
    CHOOSE k \in 1..Len(out[i].via) : out[i].via[k].group = g /\ out[i].via[k].position = p

\* The or count(T)=0 of the chosen tail T of the position.
OrCountText(g, p) ==
    LET chosen == all_groups[g].all_tails[all_groups[g].chosen_tail[p]]
    IN  TxtOrCount
        \o (IF chosen.simple_tail = <<>> THEN <<".">>
            ELSE SubSeq(chosen.simple_tail, 2, Len(chosen.simple_tail)))
        \o TxtIsZero
HasOrCount(i, g, p) ==
    Contains(out[i].via[SegmentThrough(i, g, p)].predicate, OrCountText(g, p))

\* The entry of line i has the simplified tail and the value of the chosen tail.
EntryIsChosen(i, g, p) ==
    LET chosen == all_groups[g].all_tails[all_groups[g].chosen_tail[p]]
        entry == all_augeas_paths[out[i].entry]
    IN  /\ entry.segments[SegmentThrough(i, g, p)].simplified_tail = chosen.simple_tail
        /\ entry.value = chosen.value

TierTwoOrThree(g, p) ==
    all_groups[g].chosen_tail_state[p] \in SecondTierStates \cup ThirdTierStates

\* C3 (as the code has it): at a position chosen under the second or third
\* preference the first line written through it carries no or count(T)=0; every
\* later line carries it up to and including the first of them whose entry has
\* the simplified tail and value of the chosen tail, and no line after that one.
C3_OrCountAfterFirstLine ==
    \A g \in 1..Len(all_groups) :
        \A p \in 1..all_groups[g].max_position :
            TierTwoOrThree(g, p) =>
                \A i \in LinesThrough(g, p) :
                    LET before == {j \in LinesThrough(g, p) : j < i}
                        later == {j \in before : \E h \in before : h < j}
                    IN  HasOrCount(i, g, p) <=>
                            /\ before # {}
                            /\ \A j \in later : ~EntryIsChosen(j, g, p)

\* C3 (as stated): every line from the first written through the position up
\* to and including the one of the chosen tail carries or count(T)=0, and no
\* line after it.
C3_OrCountFromFirstLine ==
    \A g \in 1..Len(all_groups) :
        \A p \in 1..all_groups[g].max_position :
            TierTwoOrThree(g, p) =>
                \A i \in LinesThrough(g, p) :
                    HasOrCount(i, g, p) <=>
                        \A j \in LinesThrough(g, p) : j < i => ~EntryIsChosen(j, g, p)

\* Three lines through one position: before, at and after the chosen tail.
C3_Witness ==
    \E g \in 1..Len(all_groups) :
        \E p \in 1..all_groups[g].max_position :
            /\ TierTwoOrThree(g, p)
            /\ \E i1, i2, i3 \in LinesThrough(g, p) :
                  /\ i1 < i2 /\ i2 < i3
                  /\ ~HasOrCount(i1, g, p)
                  /\ HasOrCount(i2, g, p) /\ EntryIsChosen(i2, g, p)
                  /\ ~HasOrCount(i3, g, p)

\* ----------------------------------------------------------------------- C4
\* The predicate of the fourth preference: the first tail and the ordinal k.
OrdinalPredicate(tail, k) ==
    <<"[">>
    \o (IF tail.simple_tail = <<>> THEN <<".">>
        ELSE SubSeq(tail.simple_tail, 2, Len(tail.simple_tail)))
    \o (IF tail.value = NULL THEN <<>> ELSE <<"=">> \o tail.value_qq)
    \o <<"]", "[">> \o ultoa(k) \o <<"]">>

\* The 1-based index of position p among the positions of the group that have
\* an entry with the simplified tail and value of the tail.
IndexInOwnSubgroup(g, p, tail) ==
    Cardinality({q \in 1..p : PairCount(g, q, tail) >= 1})

\* C4: a line written through a position whose state is
\* FIRST_TAIL_PLUS_POSITION carries [first-tail='fv'][k] where k is the index
\* of the position among the positions that hold its own first tail.
C4_OrdinalInOwnSubgroup ==
    \A i \in Lines :
        \A k \in 1..Len(out[i].via) :
            out[i].via[k].state = FIRST_TAIL_PLUS_POSITION =>
                out[i].via[k].predicate =
                    OrdinalPredicate(
                        all_groups[out[i].via[k].group].all_tails[out[i].via[k].first],
                        IndexInOwnSubgroup(out[i].via[k].group, out[i].via[k].position,
                                           out[i].via[k].first))

\* ----------------------------------------------------------------------- C5
\* The entry is without a value and the next entry is below it.
NullPrefixOfNext(i) ==
    /\ matches[i].value = NULL
    /\ i < Len(matches)
    /\ Len(matches[i + 1].path) > Len(matches[i].path)
    /\ SubSeq(matches[i + 1].path, 1, Len(matches[i].path) + 1)
           = matches[i].path \o <<"/">>

RECURSIVE EntriesToWrite(_)
\* The entries from i on that get a line, in their order.
EntriesToWrite(i) ==
    IF i > Len(matches) THEN <<>>
    ELSE (IF NullPrefixOfNext(i) THEN <<>> ELSE <<i>>) \o EntriesToWrite(i + 1)

\* C5: when the program ends, the lines written are one for every entry that
\* is not a NULL-valued path prefix of the entry after it, none for an entry that
\* is, in the order of the entries.
C5_OneLinePerEntry ==
    pc \in {"done", "crashed"} =>
        [i \in Lines |-> out[i].entry] = EntriesToWrite(1)

\* ---------------------------------------------------------------------- C11
\* The (simplified tail, value) pairs of the entries at a position, in the
\* order they were added.
PairsAt(g, p) ==
    [i \in 1..Len(all_groups[g].tails_at_position[p]) |->
        <<all_groups[g].all_tails[all_groups[g].tails_at_position[p][i]].simple_tail,
          all_groups[g].all_tails[all_groups[g].tails_at_position[p][i]].value>>]

\* Two different positions of one group, both with entries, that carry the same
\* sequence of (simplified tail, value) pairs.
TwinPositions(g, p, q) ==
    /\ p # q
    /\ PairsAt(g, p) # <<>>
    /\ PairsAt(g, p) = PairsAt(g, q)

\* C11: two different positions of one group that carry the same sequence of
\* (simplified tail, value) pairs are both left by the chooser in state
\* FIRST_TAIL_PLUS_POSITION (the fourth preference), whatever the other
\* positions of the group hold, and emission never changes that state.
C11_TwinsForceFourthTier ==
    Chosen =>
        \A g \in 1..Len(all_groups) :
            \A p, q \in 1..all_groups[g].max_position :
                TwinPositions(g, p, q) =>
                    /\ all_groups[g].chosen_tail_state[p] = FIRST_TAIL_PLUS_POSITION
                    /\ all_groups[g].chosen_tail_state[q] = FIRST_TAIL_PLUS_POSITION

\* Twins of two entries each (the anchor and a field with a later one of the
\* same label) next to a third position that differs from them, all written.
C11_Witness ==
    /\ pc = "done"
    /\ \E g \in 1..Len(all_groups) :
          /\ all_groups[g].max_position = 3
          /\ \E p, q, r \in 1..3 :
                /\ TwinPositions(g, p, q)
                /\ Len(PairsAt(g, p)) = 3
                /\ r # p /\ r # q
                /\ PairsAt(g, r) # PairsAt(g, p)
                /\ PairsAt(g, r) # <<>>
                /\ all_groups[g].chosen_tail_state[r] # FIRST_TAIL_PLUS_POSITION

\* ---------------------------------------------------------------------- C12
\* Where a well-formed marker starts: [ digits ], or / digits before / or the end.
BracketMarkerAt(path, i) ==
    /\ path[i] = "["
    /\ IsDigit(CharAt(path, i + 1))
    /\ CharAt(path, SkipDigits(path, i + 1)) = "]"

SlashMarkerAt(path, i) ==
    /\ path[i] = "/"
    /\ IsDigit(CharAt(path, i + 1))
    /\ CharAt(path, SkipDigits(path, i + 1)) \in {"/", NUL}

Markers(path) ==
    {i \in 1..Len(path) : BracketMarkerAt(path, i) \/ SlashMarkerAt(path, i)}

\* Where a [ or / is followed by a digit without starting a marker.
PseudoMarkers(path) ==
    {i \in 1..Len(path) :
        /\ path[i] \in {"[", "/"}
        /\ IsDigit(CharAt(path, i + 1))
        /\ i \notin Markers(path)}

TheMarker(path) == CHOOSE i \in Markers(path) : TRUE
\* The number the marker at i holds and the first character after the marker.
MarkerValue(path, i) == strtoul(path, i + 1).val
AfterMarker(path, i) ==
    IF path[i] = "[" THEN SkipDigits(path, i + 1) + 1 ELSE SkipDigits(path, i + 1)

\* A path of exactly one marker, of a position of 1 or more, and without any
\* other [ or / that is followed by a digit.
OneMarker(path) ==
    /\ Cardinality(Markers(path)) = 1
    /\ PseudoMarkers(path) = {}
    /\ MarkerValue(path, TheMarker(path)) >= 1

\* C12 (as the code has it): for a path with exactly one marker (its position 1
\* or more, no other [ or / followed by a digit), split_path returns a first
\* segment with that position and a group; when text follows the marker it
\* returns a second segment with position absent, no group and an empty
\* simplified tail, and when the marker ends the path it returns no second
\* segment.
C12_OneMarkerSegments ==
    (pc = "returned" /\ OneMarker(fn_arg)) =>
        LET i == TheMarker(fn_arg)
            segments == fn_ret.segments
        IN  /\ ~fn_ret.crashed
            /\ Len(fn_ret.groups) = 1
            /\ Len(segments) = (IF AfterMarker(fn_arg, i) > Len(fn_arg) THEN 1 ELSE 2)
            /\ segments[1].position = MarkerValue(fn_arg, i)
            /\ segments[1].group = 1
            /\ Len(segments) = 2 =>
                  /\ segments[2].position = ULONG_MAX
                  /\ segments[2].group = 0
                  /\ segments[2].simplified_tail = <<>>

\* C12 (as stated): for a path with exactly one marker, wherever it stands,
\* split_path returns exactly two segments: one with the position and a group,
\* then one with position absent, no group and an empty simplified tail.
C12_AlwaysTwoSegments ==
    (pc = "returned" /\ OneMarker(fn_arg)) =>
        /\ Len(fn_ret.segments) = 2
        /\ fn_ret.segments[1].position # ULONG_MAX
        /\ fn_ret.segments[1].group # 0
        /\ fn_ret.segments[2].position = ULONG_MAX
        /\ fn_ret.segments[2].group = 0
        /\ fn_ret.segments[2].simplified_tail = <<>>

\* /a/1/b: the marker in the middle, two segments.
C12_Witness ==
    /\ pc = "returned"
    /\ fn_arg = <<"/", "a", "/", "1", "/", "b">>
    /\ OneMarker(fn_arg)
    /\ Len(fn_ret.segments) = 2
    /\ fn_ret.segments[1].head = <<"/", "a", "/">>
    /\ fn_ret.segments[2].segment = <<"/", "b">>

\* ---------------------------------------------------------------------- C13
\* The segment was cut at a well-formed marker of the path and has its number.
CutAtMarker(path, segment) ==
    \E i \in Markers(path) :
        /\ segment.position = MarkerValue(path, i)
        /\ Len(segment.head) = (IF path[i] = "[" THEN i - 1 ELSE i)

\* C13: split_path gives a segment a position, and a group, only where
\* str_next_pos found a well-formed marker ([ digits ], or / digits before / or
\* the end of the string); a [ or / followed by digits and then another
\* character stays part of the label, so a path without any well-formed marker
\* gets no position and no group is created for it.
C13_OnlyWellFormedMarkers ==
    (pc = "returned" /\ ~fn_ret.crashed) =>
        /\ \A k \in 1..Len(fn_ret.segments) :
              IF fn_ret.segments[k].position = ULONG_MAX
              THEN fn_ret.segments[k].group = 0
              ELSE CutAtMarker(fn_arg, fn_ret.segments[k])
        /\ Markers(fn_arg) = {} => fn_ret.groups = <<>>

\* ---------------------------------------------------------------------- C14
\* The entries with a segment of position 0.
ZeroEntries ==
    {e \in 1..Len(all_augeas_paths) :
        \E k \in 1..Len(all_augeas_paths[e].segments) :
            all_augeas_paths[e].segments[k].position = 0}

\* C14: a position of 0 is handled like any other: ingest does not end the
\* process on it, its segment joins the group of its head, the chooser gives
\* position 0 a chosen tail and a state, and emission writes the entry to the
\* end with a predicate for that position.
C14_ZeroIsAPosition ==
    /\ pc # "crashed"
    /\ Chosen =>
          \A e \in ZeroEntries :
              \A k \in 1..Len(all_augeas_paths[e].segments) :
                  LET ps == all_augeas_paths[e].segments[k] IN
                  ps.position = 0 =>
                      /\ ps.group # 0
                      /\ all_groups[ps.group].chosen_tail[0] # 0
                      /\ all_groups[ps.group].chosen_tail_state[0] # NOT_DONE

\* ---------------------------------------------------------------------- C15
\* The characters two values have in common from the start, a ] in either of
\* them standing for any character, 0 when one of them is NULL.
CommonPrefix(v1, v2) ==
    IF v1 = NULL \/ v2 = NULL THEN 0
    ELSE LET same(i) == v1[i] = v2[i] \/ v1[i] = "]" \/ v2[i] = "]"
             shorter == MIN(Len(v1), Len(v2))
         IN  CHOOSE n \in 0..shorter :
                 /\ \A i \in 1..n : same(i)
                 /\ n < shorter => ~same(n + 1)

\* re_width of a tail: its longest common prefix with the value of another tail
\* of the group at the same simplified tail.
ReWidth(g, t) ==
    LET tails == all_groups[g].all_tails
        others == {u \in 1..Len(tails) : u # t /\ tails[u].simple_tail = tails[t].simple_tail}
        widths == {CommonPrefix(tails[u].value, tails[t].value) : u \in others}
    IN  IF widths = {} THEN 0 ELSE CHOOSE w \in widths : \A v \in widths : v <= w

\* The characters written for a part of a value that is not cut.
Escaped(part, quote) == regexp_copy(part, 1, quote, Len(part))

\* The characters regexp_value() writes in place of another one, and goes on.
Rewritten(quote) == {quote, "\n", "\t", "\\", "]"}

\* The literal of a value of which `kept` leading characters are kept and .*
\* stands for the rest.
CutAfter(value, kept) ==
    LET quote == Delimiter(value)
    IN  <<quote>> \o Escaped(SubSeq(value, 1, kept), quote) \o <<".", "*", quote>>

Whole(value) ==
    LET quote == Delimiter(value) IN <<quote>> \o Escaped(value, quote) \o <<quote>>

\* The positions with a chosen tail, as <<group, position, tail>>, under --regexp.
RegexpChosen ==
    {x \in {<<g, p, all_groups[g].chosen_tail[p]>> :
               g \in 1..Len(all_groups), p \in 1..MaxRecords} :
        /\ x[2] <= all_groups[x[1]].max_position
        /\ x[3] # 0
        /\ all_groups[x[1]].all_tails[x[3]].value # NULL}

\* C15 (amended): with --regexp=L the literal of the chosen tail keeps the
\* leading characters of the value up to and including the first one past
\* max(re_width, L) of them that is written as itself and has at least three
\* characters after it, and .* stands for the rest: max(re_width, L) + 1
\* characters of a value without quote, newline, tab, backslash or ].  When no
\* such character exists the whole value is kept and no .* is appended.
C15_KeepsOneMoreThanWidth ==
    (Chosen /\ use_regexp # 0) =>
        \A x \in RegexpChosen :
            LET tail == all_groups[x[1]].all_tails[x[3]]
                width == MAX(ReWidth(x[1], x[3]), use_regexp)
                cuts == {k \in (width + 1)..(Len(tail.value) - 3) :
                            tail.value[k] \notin Rewritten(Delimiter(tail.value))}
            IN  IF cuts = {} THEN tail.value_re = Whole(tail.value)
                ELSE tail.value_re
                         = CutAfter(tail.value, CHOOSE k \in cuts : \A j \in cuts : k <= j)

\* C15 as stated: exactly max(re_width, L) characters are kept and .* appended
\* whenever at least three more characters remain, the whole value otherwise.
C15_KeepsExactlyWidth ==
    (Chosen /\ use_regexp # 0) =>
        \A x \in RegexpChosen :
            LET tail == all_groups[x[1]].all_tails[x[3]]
                width == MAX(ReWidth(x[1], x[3]), use_regexp)
            IN  IF Len(tail.value) >= width + 3
                THEN tail.value_re = CutAfter(tail.value, width)
                ELSE tail.value_re = Whole(tail.value)

\* A line is written with a literal cut after re_width + 1 characters, re_width
\* more than L, and another tail's value is kept whole.
C15_Witness ==
    /\ pc = "done"
    /\ use_regexp # 0
    /\ \E x \in RegexpChosen :
          LET tail == all_groups[x[1]].all_tails[x[3]] IN
          /\ ReWidth(x[1], x[3]) > use_regexp
          /\ tail.value_re = CutAfter(tail.value, ReWidth(x[1], x[3]) + 1)
          /\ \E i \in Lines : Contains(out[i].text, tail.value_re)
    /\ \E x \in RegexpChosen :
          LET tail == all_groups[x[1]].all_tails[x[3]] IN
          /\ Len(tail.value) > use_regexp + 1
          /\ tail.value_re = Whole(tail.value)

\* ---------------------------------------------------------------------- C16
\* The other tails of the group at the simplified tail of tail t.
SameSimpleTail(g, t) ==
    LET tails == all_groups[g].all_tails
    IN  {u \in 1..Len(tails) : u # t /\ tails[u].simple_tail = tails[t].simple_tail}

\* Whether the regular expression of the first `kept` characters of a value
\* followed by .* matches another value: a ] or a backslash is written as a dot.
MatchesKept(value, kept, other) ==
    /\ other # NULL
    /\ Len(other) >= kept
    /\ \A i \in 1..kept : value[i] = other[i] \/ value[i] \in {"]", "\\"}

\* The numbers of leading characters after which the literal of a tail is cut.
KeptOf(tail) == {k \in 1..Len(tail.value) : tail.value_re = CutAfter(tail.value, k)}

RenderedLen(g, p) ==
    LET group == all_groups[g]
        t == IF group.chosen_tail_state[p] \in ThirdTierStates
             THEN group.first_tail[p] ELSE group.chosen_tail[p]
        rendered == IF use_regexp # 0 THEN group.all_tails[t].value_re
                    ELSE group.all_tails[t].value_qq
    IN  IF rendered = NULL THEN 0 ELSE Len(rendered)

\* The positions of the group whose chosen tail has the simplified tail of p's.
WidthClass(g, p) ==
    LET group == all_groups[g]
    IN  {q \in 1..group.max_position :
            group.all_tails[group.chosen_tail[q]].simple_tail
                = group.all_tails[group.chosen_tail[p]].simple_tail}

Largest(S) == IF S = {} THEN 0 ELSE CHOOSE n \in S : \A m \in S : m <= n

\* The positions of all groups, as <<group, position>>.
Positions ==
    {x \in (1..Len(all_groups)) \X (1..MaxRecords) : x[2] <= all_groups[x[1]].max_position}

\* C17 (amended): with --pretty every position p of a group gets as pad width
\* the largest rendered value length that is not above MAX_PRETTY_WIDTH among
\* the positions of the group whose chosen tail has the simplified tail of
\* p's, 0 when all of them are above it; positions that share a chosen
\* simplified tail all get the same width.
C17_WidthSkipsLongValues ==
    (Chosen /\ pretty) =>
        \A x \in Positions :
            /\ all_groups[x[1]].pretty_width_ct[x[2]]
                  = Largest({RenderedLen(x[1], q) : q \in WidthClass(x[1], x[2])}
                            \cap 0..MAX_PRETTY_WIDTH)
            /\ \A q \in WidthClass(x[1], x[2]) :
                  all_groups[x[1]].pretty_width_ct[q] = all_groups[x[1]].pretty_width_ct[x[2]]

\* C17 as stated: the width is min(30, M), M the largest rendered value length
\* of these positions.
C17_WidthIsCappedMaximum ==
    (Chosen /\ pretty) =>
        \A x \in Positions :
            all_groups[x[1]].pretty_width_ct[x[2]]
                = MIN(MAX_PRETTY_WIDTH,
                      Largest({RenderedLen(x[1], q) : q \in WidthClass(x[1], x[2])}))

\* All lines are written of two positions with the same chosen simplified
\* tail, one with a rendered value above MAX_PRETTY_WIDTH, the other with a
\* shorter one whose length is the width of both.
C17_Witness ==
    /\ pc = "done"
    /\ pretty
    /\ \E x \in Positions :
          \E q \in WidthClass(x[1], x[2]) :
              /\ RenderedLen(x[1], x[2]) > MAX_PRETTY_WIDTH
              /\ RenderedLen(x[1], q) > 0
              /\ RenderedLen(x[1], q) <= MAX_PRETTY_WIDTH
              /\ all_groups[x[1]].pretty_width_ct[q] = RenderedLen(x[1], q)
              /\ all_groups[x[1]].pretty_width_ct[x[2]] = RenderedLen(x[1], q)

\* ---------------------------------------------------------------------- C18
\* The (group, position) pair of an entry: that of its first segment.
PairOf(e) ==
    <<all_augeas_paths[e].segments[1].group, all_augeas_paths[e].segments[1].position>>

IsBlank(i) == out[i].entry = 0

\* C18: with --pretty the line of an entry is followed by a blank line if and
\* only if a next entry exists and the (group, position) pair of its first
\* segment differs from that of the entry written; a blank line is written
\* nowhere else, and without --pretty none is written at all.
C18_BlankBetweenPairs ==
    Chosen =>
        /\ \A i \in Lines : IsBlank(i) => (pretty /\ i > 1 /\ ~IsBlank(i - 1))
        /\ pretty =>
              \A i \in Lines :
                  ~IsBlank(i) =>
                      ((i < Len(out) /\ IsBlank(i + 1))
                          <=> (/\ out[i].entry < num_matched
                               /\ PairOf(out[i].entry) # PairOf(out[i].entry + 1)))

\* With --pretty all lines are written: a blank line stands between the lines
\* of two records, and none between the lines of two records b[1] and b[2]
\* inside the same record a[1].
C18_Witness ==
    /\ pc = "done"
    /\ pretty
    /\ \E i \in Lines : IsBlank(i)
    /\ \E i \in Lines :
          /\ i < Len(out) /\ ~IsBlank(i) /\ ~IsBlank(i + 1)
          /\ LET this == all_augeas_paths[out[i].entry].segments
                 next == all_augeas_paths[out[i + 1].entry].segments
             IN  /\ Len(this) >= 2 /\ Len(next) >= 2
                 /\ this[2].group = next[2].group
                 /\ this[2].position # next[2].position

\* ---------------------------------------------------------------------- C19
\* C19: when main() ends with exit code 1 on an input error (no file argument,
\* a --target that is no absolute path, no lens for the target, a failed
\* transform, a failed load) nothing has been written to standard output.
C19_NoOutputOnError == pc = "exit(1)" => out = <<>>

\* ---------------------------------------------------------------------- C20
\* The step writes a line, and the line goes through position p of group g.
WritesThrough(g, p) ==
    /\ Len(out') > Len(out)
    /\ \E k \in 1..Len(out'[Len(out) + 1].via) :
          out'[Len(out) + 1].via[k].group = g /\ out'[Len(out) + 1].via[k].position = p

\* The entry of the line the step writes has, at position p of group g, the
\* simplified tail and the value of the chosen tail.
WritesChosen(g, p) ==
    LET chosen == all_groups[g].all_tails[all_groups[g].chosen_tail[p]]
        entry == all_augeas_paths[out'[Len(out) + 1].entry]
    IN  \E k \in 1..Len(entry.segments) :
            /\ entry.segments[k].group = g /\ entry.segments[k].position = p
            /\ entry.segments[k].simplified_tail = chosen.simple_tail
            /\ entry.value = chosen.value

\* What a step of the emission does with the state of position p of group g.
StateStep(g, p) ==
    LET before == all_groups[g].chosen_tail_state[p]
        after == all_groups'[g].chosen_tail_state[p]
    IN  IF ~WritesThrough(g, p) THEN after = before
        ELSE CASE before = CHOSEN_TAIL_START ->
                      after = CHOSEN_TAIL_WIP /\ LinesThrough(g, p) = {}
               [] before = CHOSEN_TAIL_WIP ->
                      after = (IF WritesChosen(g, p) THEN CHOSEN_TAIL_DONE
                               ELSE CHOSEN_TAIL_WIP)
               [] before = CHOSEN_TAIL_PLUS_FIRST_TAIL_START ->
                      after = CHOSEN_TAIL_PLUS_FIRST_TAIL_WIP /\ LinesThrough(g, p) = {}
               [] before = CHOSEN_TAIL_PLUS_FIRST_TAIL_WIP ->
                      after = (IF WritesChosen(g, p) THEN CHOSEN_TAIL_PLUS_FIRST_TAIL_DONE
                               ELSE CHOSEN_TAIL_PLUS_FIRST_TAIL_WIP)
               [] OTHER -> after = before

\* C20: during emission the state of a (group, position) changes only on a
\* line written through that position: START becomes WIP on the first such
\* line, WIP becomes DONE exactly on the line of the entry that has the
\* simplified tail and the value of the chosen tail, for the CHOSEN_TAIL and
\* the CHOSEN_TAIL_PLUS_FIRST_TAIL states alike; DONE, FIRST_TAIL,
\* FIRST_TAIL_PLUS_POSITION and NO_CHILD_NODES never change.
C20_StateSteps ==
    [][pc = "output" => \A x \in Positions : StateStep(x[1], x[2])]_vars

\* A position has gone from START to DONE and a line was written through it
\* after that, and another has done so in the CHOSEN_TAIL_PLUS_FIRST_TAIL
\* states or is still WIP after two lines.
C20_Witness ==
    /\ pc = "done"
    /\ \E x \in Positions :
          /\ all_groups[x[1]].chosen_tail_state[x[2]] = CHOSEN_TAIL_DONE
          /\ \E i \in LinesThrough(x[1], x[2]) :
                out[i].via[SegmentThrough(i, x[1], x[2])].state = CHOSEN_TAIL_DONE
    /\ \E x \in Positions :
          /\ all_groups[x[1]].chosen_tail_state[x[2]]
                \in {CHOSEN_TAIL_PLUS_FIRST_TAIL_DONE, CHOSEN_TAIL_WIP}
          /\ Cardinality(LinesThrough(x[1], x[2])) >= 2

\* ---------------------------------------------------------------------- C21
\* main() has left its loop over the matches: every entry is in its groups.
Ingested == pc \in {"choose", "output", "done"}

RECURSIVE SumOver(_, _)
\* The sum of f[t] over the first n indexes.
SumOver(f, n) == IF n = 0 THEN 0 ELSE f[n] + SumOver(f, n - 1)

\* The sum over the tails of group g of their tail_value_found at position p.
ValueFoundAt(g, p) ==
    LET tails == all_groups[g].all_tails
    IN  SumOver([t \in 1..Len(tails) |-> tails[t].tail_value_found_map[p]], Len(tails))

\* C21: after ingest, for every group and every position 1..max_position, the
\* tail_value_found counters of the tails of the group at the position add up
\* to the number of elements of tails_at_position of the position.
C21_ValueFoundSumsToStubs ==
    Ingested =>
        \A g \in 1..Len(all_groups) :
            \A p \in 1..all_groups[g].max_position :
                ValueFoundAt(g, p) = Len(all_groups[g].tails_at_position[p])

\* ---------------------------------------------------------------------- C22
\* The segments added so far at position p of group g whose simplified tail is
\* that of tail t, as <<entry, segment>>.
AddedAt(g, p, t) ==
    {x \in UNION {{<<e, k>> : k \in 1..Len(all_augeas_paths[e].segments)} :
                     e \in 1..Len(all_augeas_paths)} :
        LET ps == all_augeas_paths[x[1]].segments[x[2]] IN
        /\ ps.group = g /\ ps.position = p
        /\ ps.simplified_tail = all_groups[g].all_tails[t].simple_tail}

\* C22: after any sequence of add_segment_to_group() calls, for every tail T
\* of a group and every position p, tail_found[p] of T is the number of
\* segments added at p with the simplified tail of T, whatever their value;
\* the tails of the group with the same simplified tail have the same
\* tail_found; and tail_value_found[p] <= tail_found[p] <= the length of
\* tails_at_position[p].
C22_TailFoundCounts ==
    pc # "crashed" =>
        \A g \in 1..Len(all_groups) :
            LET tails == all_groups[g].all_tails IN
            \A t \in 1..Len(tails) :
                /\ \A p \in 1..all_groups[g].max_position :
                      /\ tails[t].tail_found_map[p] = Cardinality(AddedAt(g, p, t))
                      /\ tails[t].tail_value_found_map[p] <= tails[t].tail_found_map[p]
                      /\ tails[t].tail_found_map[p]
                            <= Len(all_groups[g].tails_at_position[p])
                /\ \A u \in 1..Len(tails) :
                      tails[u].simple_tail = tails[t].simple_tail
                          => tails[u].tail_found_map = tails[t].tail_found_map

\* Ingest is over; a group has grown its arrays past their first size with a
\* tail in it, and a group has two tails of one simplified tail and different
\* values, counted at two positions.
C22_Witness ==
    /\ Ingested
    /\ \E g \in 1..Len(all_groups) :
          /\ all_groups[g].position_array_size > 8
          /\ \E t, u \in 1..Len(all_groups[g].all_tails) :
                LET tails == all_groups[g].all_tails IN
                /\ tails[t].simple_tail = tails[u].simple_tail
                /\ tails[t].value # tails[u].value
                /\ tails[t].tail_found_map[1] = 1 /\ tails[t].tail_found_map[8] = 1
                /\ tails[t].tail_value_found_map[8] = 0
                /\ tails[u].tail_value_found_map[8] = 1

\* ---------------------------------------------------------------------- C23
\* The segments added to group g, as <<entry, segment>>.
AddedTo(g) ==
    {x \in UNION {{<<e, k>> : k \in 1..Len(all_augeas_paths[e].segments)} :
                     e \in 1..Len(all_augeas_paths)} :
        all_augeas_paths[x[1]].segments[x[2]].group = g}

\* The simplified tail and the value of an added segment.
PairAdded(x) ==
    <<all_augeas_paths[x[1]].segments[x[2]].simplified_tail, all_augeas_paths[x[1]].value>>

\* C23: under every option setting the tails of a group are the different
\* (simplified tail, value) pairs added to it, none of them twice, and each
\* tail has counted the segments of exactly its pair: two entries are counted
\* into the same tail if and only if their simplified tails are equal and
\* their values are both NULL or equal, with or without --regexp.
C23_TailsByExactValue ==
    Ingested =>
        \A g \in 1..Len(all_groups) :
            LET tails == all_groups[g].all_tails
                pair(t) == <<tails[t].simple_tail, tails[t].value>>
            IN  /\ {pair(t) : t \in 1..Len(tails)} = {PairAdded(x) : x \in AddedTo(g)}
                /\ \A t, u \in 1..Len(tails) : pair(t) = pair(u) => t = u
                /\ \A t \in 1..Len(tails) :
                      tails[t].tail_value_found
                          = Cardinality({x \in AddedTo(g) : PairAdded(x) = pair(t)})

\* ---------------------------------------------------------------------- C24
\* The child's simplified tail is the parent's followed by / and more.
IsChildTail(parent, child) ==
    /\ Len(child) > Len(parent)
    /\ SubSeq(child, 1, Len(parent)) = parent
    /\ child[Len(parent) + 1] = "/"

\* Element i of the list of position p of group g is one find_first_tail()
\* stops at: it has a value, or the next element is not below it, or it is the
\* last one.
Significant(g, p, i) ==
    LET stubs == all_groups[g].tails_at_position[p]
        tails == all_groups[g].all_tails
    IN  \/ i = Len(stubs)
        \/ tails[stubs[i]].value \notin {NULL, <<>>}
        \/ ~IsChildTail(tails[stubs[i]].simple_tail, tails[stubs[i + 1]].simple_tail)

\* The positions with entries, as <<group, position>>.
Populated == {x \in Positions : all_groups[x[1]].tails_at_position[x[2]] # <<>>}

FirstTailIs(g, f) ==
    {p \in 1..all_groups[g].max_position :
        all_groups[g].tails_at_position[p] # <<>> /\ all_groups[g].first_tail[p] = f}

\* C25: the subgroup built for a first tail F lists, in ascending order and
\* without duplicates, exactly the positions of the group whose first tail is
\* F, and subgroup_position[p] of each of them is the 1-based index of p in
\* that list.
C25_SubgroupOfFirstTail ==
    Chosen =>
        \A g \in 1..Len(all_groups) :
            \A s \in 1..Len(all_groups[g].subgroups) :
                LET list == all_groups[g].subgroups[s].matching_positions
                    F == all_groups[g].subgroups[s].first_tail
                IN  /\ \A i, j \in 1..Len(list) : i < j => list[i] < list[j]
                    /\ {list[i] : i \in 1..Len(list)} = FirstTailIs(g, F)
                    /\ \A i \in 1..Len(list) :
                          all_groups[g].subgroup_position[list[i]] = i

\* ---------------------------------------------------------------------- C26
\* The process ended in choose_all_tails(): every entry is ingested and a
\* group is left without its states.
ChooserFailed ==
    /\ pc = "crashed"
    /\ Len(all_augeas_paths) = num_matched
    /\ \E g \in 1..Len(all_groups) :
          \E p \in 1..all_groups[g].max_position :
              all_groups[g].chosen_tail_state[p] = NOT_DONE

\* C26: for a group with a position in 1..max_position that has no entries,
\* with or without --pretty and --regexp, the chooser and the width passes run
\* to their end: the process does not end in them, the position without
\* entries gets NO_CHILD_NODES, and every position with entries gets a chosen
\* tail and its state.
C26_GapIsHandled ==
    /\ ~ChooserFailed
    /\ Chosen =>
          \A x \in Positions :
              IF all_groups[x[1]].tails_at_position[x[2]] = <<>>
              THEN all_groups[x[1]].chosen_tail_state[x[2]] = NO_CHILD_NODES
              ELSE /\ all_groups[x[1]].chosen_tail_state[x[2]] \notin {NOT_DONE, NO_CHILD_NODES}
                   /\ all_groups[x[1]].chosen_tail[x[2]] # 0

\* ---------------------------------------------------------------------- C27
\* The group with the states of its positions left out.
WithoutStates(group) == [group EXCEPT !.chosen_tail_state = <<>>]

\* C27: a step of the emission changes nothing but chosen_tail_state: the
\* entries with their segments stay as they are, the list of groups keeps its
\* length, and every group keeps its tails with their counters, its
\* tails_at_position, chosen_tail, first_tail, subgroups, subgroup_position and
\* widths.
C27_EmissionKeepsAllButStates ==
    [][pc = "output" =>
          /\ all_augeas_paths' = all_augeas_paths
          /\ Len(all_groups') = Len(all_groups)
          /\ \A g \in 1..Len(all_groups) :
                WithoutStates(all_groups'[g]) = WithoutStates(all_groups[g])]_vars

\* All lines are written, and the emission has changed the state of two
\* positions: one is DONE, one is still WIP.
C27_Witness ==
    /\ pc = "done"
    /\ Len(out) >= 2
    /\ \E x \in Positions : all_groups[x[1]].chosen_tail_state[x[2]] = CHOSEN_TAIL_DONE
    /\ \E x \in Positions : all_groups[x[1]].chosen_tail_state[x[2]] = CHOSEN_TAIL_WIP

\* ---------------------------------------------------------------------- C28
\* The state a position ends in once the entry of its chosen tail is written.
FinalState(chosen_tail_state) ==
    CASE chosen_tail_state \in SecondTierStates -> CHOSEN_TAIL_DONE
      [] chosen_tail_state \in ThirdTierStates -> CHOSEN_TAIL_PLUS_FIRST_TAIL_DONE
      [] OTHER -> chosen_tail_state

\* The predicate output_segment() writes at position p of group g in that state.
FinalPredicate(g, p) ==
    PredicateText(all_groups[g], p, FinalState(all_groups[g].chosen_tail_state[p]),
                  <<"/">>, use_regexp)

\* C28: within one group no two different positions that have entries get the
\* same final-form predicate text.
C28_FinalPredicatesDiffer ==
    Chosen =>
        \A x \in Populated :
            \A y \in Populated :
                (x[1] = y[1] /\ x[2] # y[2])
                    => FinalPredicate(x[1], x[2]) # FinalPredicate(y[1], y[2])

\* ---------------------------------------------------------------------- C29
DoneStates == {CHOSEN_TAIL_DONE, CHOSEN_TAIL_PLUS_FIRST_TAIL_DONE}

\* The emission has ended at an entry one of whose segments makes
\* output_segment() call strcmp() on a NULL value_qq.
EndedAtStrcmp ==
    /\ pc = "crashed"
    /\ Len(all_augeas_paths) = num_matched
    /\ ndx < num_matched
    /\ \E k \in 1..Len(all_augeas_paths[ndx + 1].segments) :
          LET ps == all_augeas_paths[ndx + 1].segments[k]
          IN  /\ ps.group # 0
              /\ all_groups[ps.group].chosen_tail[ps.position] # 0
              /\ StrcmpOnNull(all_groups[ps.group], ps.position, ps,
                              all_augeas_paths[ndx + 1].value_qq)

\* Every position of the second or third preference through which a line was
\* written is in its DONE state.
WrittenPositionsDone ==
    \A x \in Positions :
        (/\ TierOf(all_groups[x[1]].chosen_tail_state[x[2]]) \in {2, 3}
         /\ LinesThrough(x[1], x[2]) # {})
            => all_groups[x[1]].chosen_tail_state[x[2]] \in DoneStates

\* C29: the emission never ends at the comparison of a null value, and when it
\* has finished every position of the second or third preference through
\* which a line was written is CHOSEN_TAIL_DONE or
\* CHOSEN_TAIL_PLUS_FIRST_TAIL_DONE.
C29_ChosenPositionsEndDone ==
    /\ ~EndedAtStrcmp
    /\ pc = "done" => WrittenPositionsDone

\* ---------------------------------------------------------------------- C30
\* The marker a segment stands for: nothing without a position, the decimal
\* position after a segment text that ends in '/', [position] otherwise.
MarkerOf(segment) ==
    IF segment.position = ULONG_MAX THEN <<>>
    ELSE IF segment.segment # <<>> /\ segment.segment[Len(segment.segment)] = "/"
    THEN ultoa(segment.position)
    ELSE <<"[">> \o ultoa(segment.position) \o <<"]">>

RECURSIVE Rejoined(_, _)
\* The texts and markers of the first k segments, one after the other.
Rejoined(segments, k) ==
    IF k = 0 THEN <<>>
    ELSE Rejoined(segments, k - 1) \o segments[k].segment \o MarkerOf(segments[k])

\* C30: the texts of the segments of a path, each followed by its marker, give
\* back the path, and the head of each segment is the prefix of the path that
\* ends where the text of the segment ends.
C30_SegmentationIsLossless ==
    pc = "returned" =>
        /\ ~fn_ret.crashed
        /\ Rejoined(fn_ret.segments, Len(fn_ret.segments)) = fn_arg
        /\ \A k \in 1..Len(fn_ret.segments) :
              fn_ret.segments[k].head
                  = Rejoined(fn_ret.segments, k - 1) \o fn_ret.segments[k].segment

====
